---- MODULE Spec2Model ----
(***************************************************************************)
(* Yuki_bot: the conversation pipeline (plugins/yuki_chat/matcher.py and   *)
(* services/ai_manager.py), the temporary blacklist, the injection guard,  *)
(* the FAISS + SQLite memory store and the affection service, as state     *)
(* machines.  Message turns are asyncio tasks: the code between two awaits *)
(* of one task is one atomic action; the affection update runs in a worker *)
(* thread and is split at its two SQLite transactions.                     *)
(***************************************************************************)
EXTENDS Integers, Sequences, FiniteSets, TLC

\* ------------------------------------------------------------------ bounds
MaxTurns == 2        \* message turns handled in one run
MaxTime == 1801      \* horizon of the wall clock, in seconds
MaxAdminOps == 1     \* admin commands (/ban, /unban, score override) in one run
MaxMemories == 2     \* rows one memory database takes before it is cleared
MaxEdges == 2        \* rows of the edges table
MaxWeight == 11      \* highest edge weight, in tenths
MaxRows == 201       \* rows of a database that is under private/<user>/ at the start
PrivateRows == 15    \* its private rows, when its older rows are group rows
MaxFan == 11         \* outgoing edges of one entity in a graph handed to get_neighbors
vector_dim == 2      \* embedding.vector_dim, the dimension of the indexes
MaxTextLen == 3      \* characters of a text handed to the splitter, and the largest threshold

\* ------------------------------------------------------- program constants
SecondsPerMinute == 60      \* minutes * 60 in TempBlacklist.ban
BlacklistMinutes == 30      \* injection_guard.blacklist_minutes (default)
InitialWeight == 10         \* add_edge(weight=1.0), in tenths
WeightStep == 1             \* weight = weight + 0.1, in tenths
max_depth == 2              \* get_neighbors(max_depth=2)
NeighborLimit == 10         \* LIMIT 10 of the query of get_neighbors
DELETE_THRESHOLD == 200     \* MemoryGCService.DELETE_THRESHOLD
DELETE_RATIO == 15          \* MemoryGCService.DELETE_RATIO, in hundredths
SUMMARIZE_THRESHOLD == 150  \* MemoryGCService.SUMMARIZE_THRESHOLD
SUMMARIZE_RATIO == 20       \* MemoryGCService.SUMMARIZE_RATIO, in hundredths
BATCH_SIZE == 15            \* MemoryGCService.BATCH_SIZE
Hundredths == 100           \* the ratios are 0.15 and 0.20

None == "None"
Users == {"u1"}
Groups == {"g1"}
JobUsers == {"u1", "u2"}    \* the users a scheduled job finds
Turns == 1..MaxTurns

BanSeconds == BlacklistMinutes * SecondsPerMinute

\* The values time.time() is read at: the start, the expiry of a guard ban
\* written at the start, and the end of the horizon.
TimePoints == {s \in 0..MaxTime : s % BanSeconds = 0 \/ s = MaxTime}

\* The turn's text, by what the guard and the retrieval look at: shorter than
\* every length threshold, holding a tier-1 keyword, or neither.
TextKinds == {"short", "keyword", "plain"}

\* Messages without text: nothing at all ("empty"), or only images that are no
\* stickers ("image_only").  With the short text, the messages no guard reads.
NoTextKinds == {"empty", "image_only"}
Unguarded == {"short"} \cup NoTextKinds

\* The three entry handlers of matcher.py.
Handlers == {"handle_chat_command", "handle_mention", "handle_private_chat"}

\* Minutes an admin passes to /ban (1..10080 accepted).
AdminMinutes == {1, BlacklistMinutes}

\* Step 2 of the affection update: delta = 0.05, in thousandths.
BaseDelta == 50

\* Raw deltas of steps 2-8 of the affection update: the base alone, or with a
\* light negative keyword and the cold-short penalty.
RawDeltas == {BaseDelta, BaseDelta - 100 - 50}

\* Scores an admin posts to the affection endpoint, in thousandths.
AdminScores == {5050, 13500}

\* Records the affection table holds when a run starts: a user after 16 and
\* after 88 turns of base delta.
StartRecords ==
    {[exists |-> TRUE, score |-> 960, level |-> -2, total |-> 16],
     [exists |-> TRUE, score |-> 4960, level |-> 2, total |-> 88]}

VARIABLES
    now,          \* int(time.time()) as last read by a blacklist operation
    blacklist,    \* rows of guard.db temp_blacklist: [user_id, expires_at, hit_count]
    adminOps,     \* admin commands issued so far
    pc,           \* pc[t]: where turn t is suspended
    ev,           \* ev[t]: the inbound event of turn t: [user, group, text]
    isb,          \* isb[t]: what is_blocked saw, while the gate of turn t runs
    verdict,      \* verdict[t]: what the guard answered, until the turn moves on
    kbHit,        \* kbHit[t]: kb_info_raw is not empty
    reply,        \* reply[t]: final_reply inside chat()
    ret,          \* ret[t]: what chat() handed back to the handler
    failed,       \* failed[t]: an exception is on its way to the except clause of chat()
    sent,         \* sent[t]: what the handler sent for turn t
    minutesSent,  \* minutesSent[t]: the minutes stated in the notice, -1 if none
    shortTerm,    \* AIManager._short_term_memory: key -> turns appended
    vstore,       \* the FAISS + SQLite store
    found,        \* the last search_memory call
    affection,    \* affection.db user_affection: user -> row
    affOld,       \* affOld[t]: old_score read by the update worker of turn t
    hist,         \* hist[t]: the load_history_async task turn t created, while it runs
    graph,        \* knowledge_graph.db: [nodes, edges]
    gop,          \* the last operation on the graph and what it answered
    gcdb,         \* gcdb[u]: the database private/<u>/private.db that memory GC opens
    job,          \* the scheduled multi-user job that runs, and how its last run ended
    org,          \* org[t]: how the organizer call of turn t ended, until the reply is sent
    stats,        \* stats.db: [file, msg_received], the file openable, locked or unopenable
    split,        \* a MessageSplitter, the text it was given and the list it returned
    walk,         \* the last get_neighbors call: its entity (-1: none) and what _traverse did
    handlerOf,    \* handlerOf[t]: the handler that runs turn t
    gcrun,        \* gcrun[c]: the user whose gc_user call, made by caller c, awaits the summaries
    wl            \* the whitelist rule: its configuration, _whitelist_cache, the events alive

blVars == <<blacklist, adminOps>>
gateVars == <<isb, verdict, sent, minutesSent>>
chatVars == <<kbHit, reply, ret, failed>>
memVars == <<shortTerm, vstore, found>>
affVars == <<affection, affOld>>

extVars == <<graph, gop, gcdb, job, org, stats, split, walk, handlerOf, gcrun, wl>>

vars == <<now, blVars, pc, ev, gateVars, chatVars, memVars, affVars, hist, extVars>>

\* ------------------------------------------------------ temporary blacklist

RowsOf(tbl, u) == {r \in tbl : r.user_id = u}

\* TempBlacklist.ban: SELECT, then UPDATE (hit_count + 1) or INSERT (hit_count 1).
ban_always_insert(tbl, u, minutes, t) ==
    tbl \cup {[user_id |-> u, expires_at |-> t + minutes * SecondsPerMinute,
               hit_count |-> Cardinality(RowsOf(tbl, u)) + 1]}

ban(tbl, u, minutes, t) ==
    IF RowsOf(tbl, u) # {}
    THEN LET row == CHOOSE r \in RowsOf(tbl, u) : TRUE
         IN  {IF r.user_id = u
              THEN [r EXCEPT !.expires_at = t + minutes * SecondsPerMinute,
                             !.hit_count = row.hit_count + 1]
              ELSE r : r \in tbl}
    ELSE tbl \cup {[user_id |-> u, expires_at |-> t + minutes * SecondsPerMinute,
                    hit_count |-> 1]}

\* TempBlacklist.unban: DELETE WHERE user_id = ?
unban(tbl, u) == tbl \ RowsOf(tbl, u)

\* TempBlacklist.is_blocked: <<result, table after the call>>.
is_blocked_no_purge(tbl, u, t) ==
    IF RowsOf(tbl, u) = {} THEN <<FALSE, tbl>>
    ELSE LET row == CHOOSE r \in RowsOf(tbl, u) : TRUE
         IN  IF t > row.expires_at THEN <<FALSE, unban(tbl, u)>> ELSE <<TRUE, tbl>>

is_blocked(tbl, u, t) ==
    IF RowsOf(tbl, u) = {} THEN <<FALSE, tbl>>
    ELSE LET row == CHOOSE r \in RowsOf(tbl, u) : TRUE
         IN  IF t >= row.expires_at THEN <<FALSE, unban(tbl, u)>> ELSE <<TRUE, tbl>>

\* TempBlacklist.get_info: <<info, table after the call>>; info.found is false
\* for None.
NoInfo == [found |-> FALSE, remaining_minutes |-> -1]

get_info_keeps_expired(tbl, u, t) ==
    IF RowsOf(tbl, u) = {} THEN <<NoInfo, tbl>>
    ELSE LET row == CHOOSE r \in RowsOf(tbl, u) : TRUE
         IN  <<[found |-> TRUE,
                remaining_minutes |-> (row.expires_at - t) \div SecondsPerMinute], tbl>>

get_info(tbl, u, t) ==
    IF RowsOf(tbl, u) = {} THEN <<NoInfo, tbl>>
    ELSE LET row == CHOOSE r \in RowsOf(tbl, u) : TRUE
         IN  IF t >= row.expires_at THEN <<NoInfo, unban(tbl, u)>>
             ELSE <<[found |-> TRUE,
                     remaining_minutes |-> (row.expires_at - t) \div SecondsPerMinute], tbl>>

\* TempBlacklist.cleanup_expired: DELETE WHERE expires_at < now
cleanup_expired(tbl, t) == {r \in tbl : ~(r.expires_at < t)}

\* ------------------------------------------------- vector store (FAISS + SQLite)
\* vstore = [udb, gdb, pcache, pfile, gcache, gfile]:
\*   udb[u]    user_<u>.db: private_memories, group_memories and their
\*             AUTOINCREMENT counters
\*   gdb[g]    group_<g>.db: member_memories
\*   pcache[u] self._private_indices[u]: the loaded (index, id_map)
\*   pfile[u]  user_<u>.faiss and user_<u>_id_map.pkl on disk
\* A vector is kept by its norm ("unit" or "zero"); an id_map entry is
\* [tag |-> "int" | "group", id].

EmptyUserDb ==
    [exists |-> FALSE, private_memories |-> {}, group_memories |-> {}, pseq |-> 0, gseq |-> 0]
EmptyGroupDb == [exists |-> FALSE, member_memories |-> {}, mseq |-> 0]
NotLoaded == [loaded |-> FALSE, vecs |-> <<>>, id_map |-> <<>>]
NoFiles == [index_exists |-> FALSE, vecs |-> <<>>, map_exists |-> FALSE, id_map |-> <<>>]

EmptyStore ==
    [udb |-> [u \in Users |-> EmptyUserDb], gdb |-> [g \in Groups |-> EmptyGroupDb],
     pcache |-> [u \in Users |-> NotLoaded], pfile |-> [u \in Users |-> NoFiles],
     gcache |-> [g \in Groups |-> NotLoaded], gfile |-> [g \in Groups |-> NoFiles]]

\* What the embedding endpoint answered: a vector of the configured dimension
\* ("ok"), a failure or an answer without data ("fail"), or a vector of another
\* dimension ("baddim").
EmbedAnswers == {"ok", "fail", "baddim"}

\* EmbeddingClient.get_embedding: the endpoint's vector as it came, or
\* np.zeros(vector_dim) for a failure or an answer without data.
get_embedding(answer) ==
    CASE answer = "ok" -> [i \in 1..vector_dim |-> i + 2]
      [] answer = "fail" -> [i \in 1..vector_dim |-> 0]
      [] OTHER -> [i \in 1..vector_dim + 1 |-> 1]

\* The square of np.linalg.norm(vec).
RECURSIVE SumSq(_)
SumSq(vec) == IF vec = <<>> THEN 0 ELSE Head(vec) * Head(vec) + SumSq(Tail(vec))

\* _normalize_vector: vec / norm when norm > 0, else vec as it is.  The quotient
\* is kept as the vector with the square of its divisor.
_normalize_vector(vec) ==
    [vec |-> vec, div_sq |-> IF SumSq(vec) > 0 THEN SumSq(vec) ELSE 1]

\* The L2 norm of such a quotient: 1, 0 or another value.
norm_of(nv) ==
    IF SumSq(nv.vec) = nv.div_sq THEN "unit"
    ELSE IF SumSq(nv.vec) = 0 THEN "zero" ELSE "other"

\* get_embedding followed by _normalize_vector, as add_pair_memory calls them:
\* the norm of the vector handed to the index, "baddim" for one of another
\* dimension.
embed_normalized(answer) ==
    LET nv == _normalize_vector(get_embedding(answer))
    IN  IF Len(nv.vec) # vector_dim THEN "baddim" ELSE norm_of(nv)

\* _load_private_index / _load_group_index: the cached pair, else the files.
load_index(cache, file) ==
    IF cache.loaded THEN cache
    ELSE IF file.index_exists
         THEN [loaded |-> TRUE, vecs |-> file.vecs,
               id_map |-> IF file.map_exists THEN file.id_map ELSE <<>>]
         ELSE [loaded |-> TRUE, vecs |-> <<>>, id_map |-> <<>>]

\* _save_private_index / _save_group_index: write_index, then pickle.dump.
save_index(cache) ==
    [index_exists |-> TRUE, vecs |-> cache.vecs, map_exists |-> TRUE, id_map |-> cache.id_map]

\* index.add + id_map.append + save; faiss refuses a vector of another dimension
\* (the exception leaves the loaded pair cached and the files as they were).
IndexAdd(cache, file, vec, entry) ==
    LET c == load_index(cache, file)
    IN  IF vec = "baddim"
        THEN [cache |-> c, file |-> file, raised |-> TRUE]
        ELSE LET c2 == [c EXCEPT !.vecs = Append(@, vec), !.id_map = Append(@, entry)]
             IN  [cache |-> c2, file |-> save_index(c2), raised |-> FALSE]

\* FAISSVectorService._add_to_user_private_memory: [vs, raised].
_add_to_user_private_memory(vs, u, content, vec) ==
    LET db == vs.udb[u]
        id == db.pseq + 1
        row == [id |-> id, scene |-> None, content |-> content]
        vs1 == [vs EXCEPT !.udb[u] = [db EXCEPT !.exists = TRUE, !.pseq = id,
                                      !.private_memories = @ \cup {row}]]
        r == IndexAdd(vs.pcache[u], vs.pfile[u], vec, [tag |-> "int", id |-> id])
    IN  [vs |-> [vs1 EXCEPT !.pcache[u] = r.cache, !.pfile[u] = r.file],
         raised |-> r.raised]

\* FAISSVectorService._add_to_user_group_memory: [vs, raised].
_add_to_user_group_memory(vs, u, g, content, vec) ==
    LET db == vs.udb[u]
        id == db.gseq + 1
        row == [id |-> id, scene |-> g, content |-> content]
        vs1 == [vs EXCEPT !.udb[u] = [db EXCEPT !.exists = TRUE, !.gseq = id,
                                      !.group_memories = @ \cup {row}]]
        r == IndexAdd(vs.pcache[u], vs.pfile[u], vec, [tag |-> "group", id |-> id])
    IN  [vs |-> [vs1 EXCEPT !.pcache[u] = r.cache, !.pfile[u] = r.file],
         raised |-> r.raised]

\* FAISSVectorService._add_to_group_member_memory: [vs, raised].
_add_to_group_member_memory(vs, g, u, content, vec) ==
    LET db == vs.gdb[g]
        id == db.mseq + 1
        row == [id |-> id, user_id |-> u, content |-> content]
        vs1 == [vs EXCEPT !.gdb[g] = [db EXCEPT !.exists = TRUE, !.mseq = id,
                                      !.member_memories = @ \cup {row}]]
        r == IndexAdd(vs.gcache[g], vs.gfile[g], vec, [tag |-> "int", id |-> id])
    IN  [vs |-> [vs1 EXCEPT !.gcache[g] = r.cache, !.gfile[g] = r.file],
         raised |-> r.raised]

\* FAISSVectorService.add_pair_memory: the store after the call (every
\* exception of the insert is caught and logged).
add_pair_memory(vs, u, content, g, answer) ==
    LET vec == embed_normalized(answer)
    IN  IF g # None
        THEN LET a == _add_to_user_group_memory(vs, u, g, content, vec)
             IN  IF a.raised THEN a.vs
                 ELSE _add_to_group_member_memory(a.vs, g, u, content, vec).vs
        ELSE _add_to_user_private_memory(vs, u, content, vec).vs

\* FAISSVectorService._search_private_memory: [cache, rows].  hits are the index
\* positions FAISS returned with a similarity at or above the threshold.
search_private_group_rows_too(db, cache, file, hits, cross_scene) ==
    LET c == load_index(cache, file)
        rowsAt(i) ==
            IF i > Len(c.id_map) THEN {}
            ELSE LET ref == c.id_map[i]
                 IN  IF ref.tag = "group"
                     THEN {[source |-> "group_memories", id |-> r.id, scene |-> r.scene] :
                              r \in {x \in db.group_memories : x.id = ref.id}}
                     ELSE {[source |-> "private_memories", id |-> r.id, scene |-> r.scene] :
                              r \in {x \in db.private_memories : x.id = ref.id}}
    IN  IF ~db.exists THEN [cache |-> cache, rows |-> {}]
        ELSE IF Len(c.vecs) = 0 THEN [cache |-> c, rows |-> {}]
        ELSE [cache |-> c, rows |-> UNION {rowsAt(i) : i \in hits \cap (1..Len(c.vecs))}]

_search_private_memory(db, cache, file, hits, cross_scene) ==
    LET c == load_index(cache, file)
        rowsAt(i) ==
            IF i > Len(c.id_map) THEN {}
            ELSE LET ref == c.id_map[i]
                 IN  IF ref.tag = "group"
                     THEN IF ~cross_scene THEN {}
                          ELSE {[source |-> "group_memories", id |-> r.id, scene |-> r.scene] :
                                   r \in {x \in db.group_memories : x.id = ref.id}}
                     ELSE {[source |-> "private_memories", id |-> r.id, scene |-> r.scene] :
                              r \in {x \in db.private_memories : x.id = ref.id}}
    IN  IF ~db.exists THEN [cache |-> cache, rows |-> {}]
        ELSE IF Len(c.vecs) = 0 THEN [cache |-> c, rows |-> {}]
        ELSE [cache |-> c, rows |-> UNION {rowsAt(i) : i \in hits \cap (1..Len(c.vecs))}]

\* FAISSVectorService._search_user_in_other_groups: the user's rows of other
\* groups whose re-embedded content passes the threshold (others: the row ids
\* that pass).
_search_user_in_other_groups(udbu, g, others) ==
    IF ~udbu.exists THEN {}
    ELSE {[source |-> "group_memories", id |-> r.id, scene |-> r.scene] :
             r \in {x \in udbu.group_memories : x.scene # g /\ x.id \in others}}

\* FAISSVectorService._search_group_memory: [cache, rows].
_search_group_memory(db, udbu, cache, file, g, hits, others, cross_scene) ==
    LET c == load_index(cache, file)
        rowsAt(i) ==
            IF i > Len(c.id_map) THEN {}
            ELSE {[source |-> "member_memories", id |-> r.id, scene |-> g] :
                     r \in {x \in db.member_memories : x.id = c.id_map[i].id}}
    IN  IF ~db.exists THEN [cache |-> cache, rows |-> {}]
        ELSE IF Len(c.vecs) = 0 THEN [cache |-> c, rows |-> {}]
        ELSE [cache |-> c,
              rows |-> UNION {rowsAt(i) : i \in hits \cap (1..Len(c.vecs))}
                       \cup (IF cross_scene THEN _search_user_in_other_groups(udbu, g, others)
                             ELSE {})]

\* FAISSVectorService.search_memory: [vs, rows].  short: the stripped query has
\* fewer than 4 characters or is one of the skip patterns.
search_memory(vs, u, short, g, hits, others, cross_scene) ==
    IF short THEN [vs |-> vs, rows |-> {}]
    ELSE IF g # None
         THEN LET r == _search_group_memory(vs.gdb[g], vs.udb[u], vs.gcache[g], vs.gfile[g],
                                            g, hits, others, cross_scene)
              IN  [vs |-> [vs EXCEPT !.gcache[g] = r.cache], rows |-> r.rows]
         ELSE LET r == _search_private_memory(vs.udb[u], vs.pcache[u], vs.pfile[u],
                                              hits, cross_scene)
              IN  [vs |-> [vs EXCEPT !.pcache[u] = r.cache], rows |-> r.rows]

\* FAISSVectorService.clear_user_memory: unlink the db and both index files and
\* drop the cached index.
clear_user_memory(vs, u) ==
    [vs EXCEPT !.udb[u] = EmptyUserDb, !.pfile[u] = NoFiles, !.pcache[u] = NotLoaded]

\* --------------------------------------------------------------- affection
\* Scores are kept in thousandths (0.05 is 50, 13.0 is 13000).

\* AffectionService.LEVEL_RANGES
LEVEL_RANGES ==
    <<<<-2, 0, 1000>>, <<-1, 1100, 2000>>, <<0, 2100, 3000>>, <<1, 3100, 4000>>,
      <<2, 4100, 5000>>, <<3, 5100, 6000>>, <<4, 6100, 7000>>, <<5, 7100, 8000>>,
      <<6, 8100, 9000>>, <<7, 9100, 10000>>, <<8, 10100, 11000>>, <<9, 11100, 11500>>,
      <<10, 11600, 12000>>, <<11, 12100, 12500>>, <<12, 12600, 12900>>,
      <<13, 13000, 13000>>>>

Min2(a, b) == IF a < b THEN a ELSE b
Max2(a, b) == IF a > b THEN a ELSE b

\* AffectionService.score_to_level: the first range holding the score, else the
\* boundary handling.
score_to_level(score) ==
    LET holds == {i \in 1..Len(LEVEL_RANGES) :
                     LEVEL_RANGES[i][2] <= score /\ score <= LEVEL_RANGES[i][3]}
    IN  IF holds # {}
        THEN LEVEL_RANGES[CHOOSE i \in holds : \A j \in holds : i <= j][1]
        ELSE IF score < 0 THEN -2
        ELSE IF score > 13000 THEN 13
        ELSE -2

NoAffection == [exists |-> FALSE, score |-> 0, level |-> -2, total |-> 0]

\* AffectionService.get_or_create_user: [score, table after].
get_or_create_user(aff, u) ==
    IF aff[u].exists THEN [score |-> aff[u].score, aff |-> aff]
    ELSE [score |-> 0,
          aff |-> [aff EXCEPT ![u] = [exists |-> TRUE, score |-> 0, level |-> -2, total |-> 0]]]

\* AffectionService.update_user: UPDATE ... WHERE user_id = ?
update_user(aff, u, new_score, new_level) ==
    IF aff[u].exists
    THEN [aff EXCEPT ![u] = [@ EXCEPT !.score = new_score, !.level = new_level,
                                      !.total = @ + 1]]
    ELSE aff

\* Step 9 of _update_affection_sync: the growth coefficient, in tenths.
Coef(old_score) ==
    IF old_score <= 3000 THEN 12
    ELSE IF old_score <= 6000 THEN 10
    ELSE IF old_score <= 9000 THEN 7
    ELSE IF old_score <= 11000 THEN 5
    ELSE IF old_score <= 12500 THEN 3
    ELSE 1

\* Steps 9-11 of _update_affection_sync: the new score from the score read and
\* the raw delta of steps 2-8 (a multiple of 0.05).
NewScore(old_score, raw) ==
    LET delta == Max2(-500, Min2((raw * Coef(old_score)) \div 10, 500))
    IN  Max2(0, Min2(13000, old_score + delta))

\* AffectionService._admin_update_score_sync: clamp, derive the level, UPDATE
\* an existing row.
_admin_update_score_sync(aff, u, new_score) ==
    LET s == Max2(0, Min2(13000, new_score))
    IN  IF aff[u].exists
        THEN [aff EXCEPT ![u] = [@ EXCEPT !.score = s, !.level = score_to_level(s)]]
        ELSE aff

\* ------------------------------------------------------------ injection guard

\* Tier 1 of InjectionGuardService.check: the QUICK_BLOCK_KEYWORDS loop.
quick_block(text) == text = "keyword"

\* InjectionGuardService.check by the text and what tier 2 answered: "True",
\* "False" or "raise" (RuntimeError).
check_unknown_blocks(text, answer) ==
    IF quick_block(text) THEN "True"
    ELSE CASE answer = "true" -> "True"
           [] answer = "false" -> "False"
           [] OTHER -> "True"

check(text, answer) ==
    IF quick_block(text) THEN "True"
    ELSE CASE answer = "true" -> "True"
           [] answer = "false" -> "False"
           [] OTHER -> "raise"

GuardAnswers == {"true", "false", "other", "error"}

\* ------------------------------------------------ knowledge graph (core/RAGM)
\* graph = [nodes, edges]: the rows of knowledge_graph.db.  A node is
\* [user_id, entity, aliases] (aliases: properties.aliases), an edge is
\* [user_id, source_entity, target_entity, relation, weight]; weights are kept
\* in tenths (1.0 is 10).

Entities == {"A", "B", "C"}
Relations == {"r"}
Aliases == {"x"}

EmptyGraph == [nodes |-> {}, edges |-> {}]
NoOp == [op |-> "none", user |-> None, keyword |-> None, merged |-> <<>>]
NoJob == [kind |-> "none", todo |-> <<>>, cur |-> None, pair |-> FALSE, old_ids |-> {},
          raised |-> FALSE]

NodesOf(g, u, entity) == {n \in g.nodes : n.user_id = u /\ n.entity = entity}

EdgesOf(g, u, source, target, relation) ==
    {e \in g.edges : /\ e.user_id = u
                     /\ e.source_entity = source
                     /\ e.target_entity = target
                     /\ e.relation = relation}

\* GraphStorage.add_node: props = properties or {} with the alias appended, then
\* INSERT ... ON CONFLICT(user_id, entity) DO UPDATE SET properties =
\* excluded.properties.
add_node(g, u, entity, alias) ==
    LET props == IF alias # None THEN {alias} ELSE {}
    IN  [g EXCEPT !.nodes = (@ \ NodesOf(g, u, entity))
                            \cup {[user_id |-> u, entity |-> entity, aliases |-> props]}]

\* GraphStorage.add_edge: INSERT ... ON CONFLICT(user_id, source_entity,
\* target_entity, relation) DO UPDATE SET weight = weight + 0.1.
add_edge_or_ignore(g, u, source, target, relation, weight) ==
    IF EdgesOf(g, u, source, target, relation) # {} THEN g
    ELSE [g EXCEPT !.edges = @ \cup {[user_id |-> u, source_entity |-> source,
                                      target_entity |-> target, relation |-> relation,
                                      weight |-> weight]}]

add_edge(g, u, source, target, relation, weight) ==
    IF EdgesOf(g, u, source, target, relation) # {}
    THEN [g EXCEPT !.edges = {IF e \in EdgesOf(g, u, source, target, relation)
                              THEN [e EXCEPT !.weight = @ + WeightStep] ELSE e : e \in @}]
    ELSE [g EXCEPT !.edges = @ \cup {[user_id |-> u, source_entity |-> source,
                                      target_entity |-> target, relation |-> relation,
                                      weight |-> weight]}]

\* SELECT ... FROM edges WHERE user_id = ? AND source_entity = ? ORDER BY weight
\* DESC, as a sequence.
RECURSIVE by_weight(_)
by_weight(E) ==
    IF E = {} THEN <<>>
    ELSE LET e == CHOOSE x \in E : \A y \in E : y.weight <= x.weight
         IN  <<e>> \o by_weight(E \ {e})

\* The same query without its LIMIT.
fetch_every_row(g, u, entity) ==
    by_weight({e \in g.edges : e.user_id = u /\ e.source_entity = entity})

\* The rows cursor.fetchall() hands to _traverse: ORDER BY weight DESC LIMIT 10.
fetchall(g, u, entity) ==
    LET rows == by_weight({e \in g.edges : e.user_id = u /\ e.source_entity = entity})
    IN  SubSeq(rows, 1, IF Len(rows) < NeighborLimit THEN Len(rows) ELSE NeighborLimit)

\* GraphStorage.get_neighbors: the depth-first walk along outgoing edges.  The
\* walk w is [results, visited, expanded]: the rows appended to results, the
\* visited set, and for each entity whose edges were queried the depth and the
\* rows that came back.
NoWalk == [results |-> <<>>, visited |-> {}, expanded |-> <<>>]

RECURSIVE _traverse(_, _, _, _, _)
RECURSIVE TraverseTargets(_, _, _, _, _)
_traverse(g, u, current_entity, depth, w) ==
    IF depth > max_depth \/ current_entity \in w.visited
    THEN w
    ELSE LET rows == fetchall(g, u, current_entity)
         IN  TraverseTargets(g, u, rows, depth,
                 [w EXCEPT !.visited = @ \cup {current_entity},
                           !.expanded = Append(@, [entity |-> current_entity,
                                                   depth |-> depth, rows |-> rows])])

\* for row in cursor.fetchall(): append the result, then walk on from its target.
TraverseTargets(g, u, rows, depth, w) ==
    IF rows = <<>> THEN w
    ELSE LET e == Head(rows)
             w1 == [w EXCEPT !.results = Append(@, [source |-> e.source_entity,
                                                    target |-> e.target_entity,
                                                    relation |-> e.relation,
                                                    depth |-> depth])]
             w2 == IF depth < max_depth
                   THEN _traverse(g, u, e.target_entity, depth + 1, w1)
                   ELSE w1
         IN  TraverseTargets(g, u, Tail(rows), depth, w2)

get_neighbors(g, u, entity) ==
    LET w == _traverse(g, u, entity, 1, NoWalk)
    IN  {w.results[i] : i \in 1..Len(w.results)}

\* GraphRetriever.retrieve_with_graph for one keyword: the nodes found by name
\* (search_entities) and by alias (_search_by_alias), then the neighbours of
\* each.
retrieve_with_graph(g, u, keyword) ==
    LET all_entities == {n.entity : n \in {x \in g.nodes :
                            x.user_id = u /\ (x.entity = keyword \/ keyword \in x.aliases)}}
    IN  UNION {get_neighbors(g, u, entity) : entity \in all_entities}

\* GraphRetriever.add_dialogue_to_graph once the extractor answered: add_node
\* for each entity, then add_edge for each relation.
RECURSIVE AddNodes(_, _, _)
AddNodes(g, u, entities) ==
    IF entities = <<>> THEN g
    ELSE AddNodes(add_node(g, u, Head(entities).name, Head(entities).alias), u, Tail(entities))

RECURSIVE AddEdges(_, _, _)
AddEdges(g, u, relations) ==
    IF relations = <<>> THEN g
    ELSE AddEdges(add_edge(g, u, Head(relations).source, Head(relations).target,
                           Head(relations).relation, InitialWeight), u, Tail(relations))

\* GraphStorage._merge_entities: the aliases go to the main node; then, for each
\* duplicate in turn, its outgoing and its incoming edges are copied onto the
\* main entity (INSERT OR IGNORE) and deleted, and its node is deleted; at the
\* end the self-loops of the main entity are deleted.
MergeOne(g, u, main_entity, dup_entity) ==
    LET taken(E, e) == EdgesOf([edges |-> E], u, e.source_entity, e.target_entity,
                               e.relation) # {}
        outMoved == {[e EXCEPT !.source_entity = main_entity] :
                        e \in {x \in g.edges : x.user_id = u /\ x.source_entity = dup_entity}}
        E1 == g.edges \cup {e \in outMoved : ~taken(g.edges, e)}
        E2 == {e \in E1 : ~(e.user_id = u /\ e.source_entity = dup_entity)}
        inMoved == {[e EXCEPT !.target_entity = main_entity] :
                       e \in {x \in E2 : x.user_id = u /\ x.target_entity = dup_entity}}
        E3 == E2 \cup {e \in inMoved : ~taken(E2, e)}
        E4 == {e \in E3 : ~(e.user_id = u /\ e.target_entity = dup_entity)}
    IN  [nodes |-> g.nodes \ NodesOf(g, u, dup_entity), edges |-> E4]

RECURSIVE MergeEach(_, _, _, _)
MergeEach(g, u, main_entity, duplicates) ==
    IF duplicates = <<>> THEN g
    ELSE MergeEach(MergeOne(g, u, main_entity, Head(duplicates)), u, main_entity,
                   Tail(duplicates))

_merge_entities(g, u, main_entity, duplicates) ==
    IF NodesOf(g, u, main_entity) = {} THEN g
    ELSE LET dupNodes == UNION {NodesOf(g, u, duplicates[i]) : i \in 1..Len(duplicates)}
             main_aliases ==
                 (UNION {n.aliases : n \in NodesOf(g, u, main_entity) \cup dupNodes}
                  \cup {n.entity : n \in dupNodes}) \ {main_entity}
             g1 == [g EXCEPT !.nodes = {IF n \in NodesOf(g, u, main_entity)
                                        THEN [n EXCEPT !.aliases = main_aliases]
                                        ELSE n : n \in @}]
             g2 == MergeEach(g1, u, main_entity, duplicates)
         IN  [g2 EXCEPT !.edges = {e \in @ : ~(/\ e.user_id = u
                                               /\ e.source_entity = main_entity
                                               /\ e.target_entity = main_entity)}]

\* AIGraphCleaner.ai_cleanup_user, step 4: a group (main, duplicates) the model
\* named is merged when the main entity is a node, with the duplicates that
\* are nodes; then each entity the model called useless is deleted with its
\* edges.  duplicates = <<>>: no group was named.
dup_list(g, u, duplicates) == SelectSeq(duplicates, LAMBDA d : NodesOf(g, u, d) # {})

ApplyCleanup(g, u, main_entity, duplicates, useless) ==
    LET g1 == IF /\ duplicates # <<>>
                 /\ NodesOf(g, u, main_entity) # {}
                 /\ dup_list(g, u, duplicates) # <<>>
              THEN _merge_entities(g, u, main_entity, dup_list(g, u, duplicates))
              ELSE g
    IN  [nodes |-> {n \in g1.nodes : ~(n.user_id = u /\ n.entity \in useless)},
         edges |-> {e \in g1.edges : ~(/\ e.user_id = u
                                       /\ (e.source_entity \in useless
                                           \/ e.target_entity \in useless))}]

\* GraphStorage.get_users: the users that have nodes.
get_users(g) == {n.user_id : n \in g.nodes}

\* ------------------------------------------------------------- memory GC
\* The files under <vector_db_path>/private, by directory and file name.
_get_private_db_path(user_id) == [dir |-> <<"private">>, file |-> <<"user_", user_id, ".db">>]

\* The path MemoryGCService opens for a user.
gc_db_path(user_id) == [dir |-> <<"private", user_id>>, file |-> <<"private.db">>]

\* The database a path names: FAISSVectorService keeps udb[u] at
\* _get_private_db_path(u); gd[u] is what lies at gc_db_path(u).
ReadDb(vs, gd, path) ==
    IF \E u \in Users : path = _get_private_db_path(u)
    THEN vs.udb[CHOOSE u \in Users : path = _get_private_db_path(u)]
    ELSE IF \E u \in JobUsers : path = gc_db_path(u)
         THEN gd[CHOOSE u \in JobUsers : path = gc_db_path(u)]
         ELSE EmptyUserDb

\* Rows [id, timestamp] with ids lo..hi, older first; a run starts at time 0.
RowsFrom(lo, hi) == {[id |-> i, timestamp |-> i - MaxRows - 1] : i \in lo..hi}

\* What can lie at gc_db_path(u) when a run starts: nothing, a database of
\* private rows only, or one whose oldest rows are group rows.
StartDbs ==
    {EmptyUserDb,
     [exists |-> TRUE, private_memories |-> RowsFrom(1, MaxRows), group_memories |-> {},
      pseq |-> MaxRows, gseq |-> 0],
     [exists |-> TRUE, private_memories |-> RowsFrom(MaxRows - PrivateRows + 1, MaxRows),
      group_memories |-> RowsFrom(1, MaxRows - PrivateRows),
      pseq |-> MaxRows, gseq |-> MaxRows - PrivateRows]}

\* MemoryGCService.get_user_memory_count: 0 when the file is missing or the
\* database fails.
get_user_memory_count(vs, gd, user_id, dbOk) ==
    LET db == ReadDb(vs, gd, gc_db_path(user_id))
    IN  IF ~db.exists \/ ~dbOk THEN 0
        ELSE Cardinality(db.private_memories) + Cardinality(db.group_memories)

\* math.ceil(count * ratio)
ceil_ratio(count, ratio) == (count * ratio + Hundredths - 1) \div Hundredths

\* MemoryGCService.get_oldest_memories: the ids of the first `limit` rows of
\* private_memories by timestamp.
get_oldest_memories(vs, gd, user_id, limit) ==
    LET db == ReadDb(vs, gd, gc_db_path(user_id))
    IN  IF ~db.exists THEN {}
        ELSE {r.id : r \in {x \in db.private_memories :
                  Cardinality({y \in db.private_memories : y.timestamp < x.timestamp})
                      < limit}}

\* MemoryGCService.delete_oldest: gd after it.
delete_oldest(vs, gd, user_id, ratio, dbOk) ==
    LET count == get_user_memory_count(vs, gd, user_id, dbOk)
        old_ids == get_oldest_memories(vs, gd, user_id, ceil_ratio(count, ratio))
    IN  IF count = 0 \/ old_ids = {} THEN gd
        ELSE [gd EXCEPT ![user_id].private_memories = {r \in @ : r.id \notin old_ids}]

\* MemoryGCService.insert_summary_and_delete: n summary rows are inserted with
\* the time of the call, the selected rows are deleted.
insert_summary_and_delete(gd, user_id, old_ids, n, time) ==
    LET db == gd[user_id]
    IN  [gd EXCEPT ![user_id] =
            [db EXCEPT !.pseq = @ + n,
                       !.private_memories =
                           {r \in @ : r.id \notin old_ids}
                           \cup {[id |-> db.pseq + i, timestamp |-> time] : i \in 1..n}]]

\* Nothing lies under private/<user>/.
NoGcDbs == [u \in JobUsers |-> EmptyUserDb]

\* MemoryGCService.get_all_user_ids: the directories under private/.
get_all_user_ids(gd) == {u \in JobUsers : gd[u].exists}

\* ------------------------------------------------------- short-term memory
\* AIManager._short_term_memory[key] is a deque of entries.  An entry is kept as
\* [src, scene, n]: src tells a live turn from a pair restored from the adapter,
\* scene is the conversation the pair was said in (the group id, else the user
\* id), n is the turn (live) or the time of the query message (restored).

\* AIManager._max_short_term_rounds
_max_short_term_rounds == 100

\* An unbounded list in place of the deque.
list_append(q, x) == Append(q, x)

\* deque(maxlen=_max_short_term_rounds).append
deque_append(q, x) ==
    IF Len(q) >= _max_short_term_rounds THEN Append(Tail(q), x) ELSE Append(q, x)

\* AIManager.has_short_term_memory
has_short_term_memory(stm, key) == Len(stm[key]) > 0

\* AIManager._add_to_short_term_memory
_add_to_short_term_memory(stm, key, entry) == [stm EXCEPT ![key] = deque_append(@, entry)]

\* A raw adapter message: its time, its sender ("bot", a user id or "other")
\* and what its text is ("text", "empty" or "command").
Msg(time, sender, kind) == [time |-> time, sender |-> sender, kind |-> kind]

\* messages.sort(key=time): stable, ascending.
RECURSIVE SortByTime(_)
SortByTime(msgs) ==
    IF msgs = <<>> THEN <<>>
    ELSE LET rest == SortByTime(Tail(msgs))
             m == Head(msgs)
             k == Cardinality({i \in 1..Len(rest) : rest[i].time < m.time})
         IN  SubSeq(rest, 1, k) \o <<m>> \o SubSeq(rest, k + 1, Len(rest))

\* The pairing loop of load_history_from_napcat (user = None: every sender that
\* is not the bot is the user) and of load_group_history_from_napcat (the
\* messages of other members reset the pending query).  pending is the time of
\* the pending query, 0 for none; the result holds the query time of each pair.
RECURSIVE PairUp(_, _, _)
PairUp(msgs, user, pending) ==
    IF msgs = <<>> THEN <<>>
    ELSE LET m == Head(msgs)
         IN  CASE m.kind = "empty" -> PairUp(Tail(msgs), user, pending)
               [] m.kind = "command" -> PairUp(Tail(msgs), user, 0)
               [] m.sender = "bot" ->
                    IF pending # 0 THEN <<pending>> \o PairUp(Tail(msgs), user, 0)
                    ELSE PairUp(Tail(msgs), user, 0)
               [] user = None \/ m.sender = user -> PairUp(Tail(msgs), user, m.time)
               [] OTHER -> PairUp(Tail(msgs), user, 0)

\* The last _max_short_term_rounds pairs are appended under key.
RECURSIVE AppendPairs(_, _, _)
AppendPairs(q, pairs, scene) ==
    IF pairs = <<>> THEN q
    ELSE AppendPairs(deque_append(q, [src |-> "napcat", scene |-> scene, n |-> Head(pairs)]),
                     Tail(pairs), scene)

LastRounds(pairs) ==
    IF Len(pairs) > _max_short_term_rounds
    THEN SubSeq(pairs, Len(pairs) - _max_short_term_rounds + 1, Len(pairs))
    ELSE pairs

\* AIManager.load_history_from_napcat: the pairs go under user_id.
load_history_from_napcat(stm, user_id, messages) ==
    LET pairs == PairUp(SortByTime(messages), None, 0)
    IN  [stm EXCEPT ![user_id] = AppendPairs(@, LastRounds(pairs), user_id)]

\* AIManager.load_group_history_from_napcat: the pairs of the group's history
\* go under user_id as well.
load_group_history_from_napcat(stm, group_id, user_id, messages) ==
    LET pairs == PairUp(SortByTime(messages), user_id, 0)
    IN  [stm EXCEPT ![user_id] = AppendPairs(@, LastRounds(pairs), group_id)]

\* What get_friend_msg_history / get_group_msg_history answer: nothing; a query
\* and the bot's answer to it, newest first; a query, another sender's message
\* and the bot's answer; a query, a command and the bot's answer.
Histories ==
    {<<>>,
     <<Msg(2, "bot", "text"), Msg(1, "u1", "text")>>,
     <<Msg(1, "u1", "text"), Msg(2, "other", "text"), Msg(3, "bot", "text")>>,
     <<Msg(1, "u1", "text"), Msg(2, "u1", "command"), Msg(3, "bot", "text")>>}

\* ------------------------------------------------------------------ the turns

NoEvent == [user |-> None, group |-> None, text |-> None]

\* Positions where a handler runs between two awaits: nothing else of the event
\* loop runs while a turn is at one of them.
SyncPcs == {"gate_true", "gate_false", "chat_start"}
SyncFree == \A t \in Turns : pc[t] \notin SyncPcs

\* Positions inside AIManager.chat, from the retrieval to the end of the
\* affection update.
ChatPcs == {"chat_start", "graph_wait", "org_wait", "kb_wait", "gen_wait", "rewrite_wait",
            "aff_read", "aff_write", "aff_done"}

memory_key(e) == IF e.group # None THEN e.group ELSE e.user

\* The except clause of AIManager.chat: what the call hands back ("raised":
\* the exception leaves chat()).
chat_reraise == "raised"

chat_except == "error_reply"

\* Matcher step 0, first half: TempBlacklist.is_blocked on a new event.
handle_is_blocked(t, u, g, text, tp) ==
    /\ SyncFree
    /\ pc[t] = "idle"
    /\ \A t2 \in Turns : t2 < t => pc[t2] # "idle"
    /\ tp >= now
    /\ now' = tp
    /\ LET r == is_blocked(blacklist, u, tp)
       IN  /\ blacklist' = r[2]
           /\ isb' = [isb EXCEPT ![t] =
                         IF r[1] THEN "active"
                         ELSE IF RowsOf(blacklist, u) # {} THEN "expired" ELSE "absent"]
           /\ pc' = [pc EXCEPT ![t] = IF r[1] THEN "gate_true" ELSE "gate_false"]
    /\ ev' = [ev EXCEPT ![t] = [user |-> u, group |-> g, text |-> text]]
    /\ UNCHANGED <<extVars, hist, adminOps, verdict, sent, minutesSent, chatVars, memVars, affVars>>

\* Matcher step 0, second half: get_info, then finish() with the notice, or the
\* silent return.
gate_info(t, tp) ==
    /\ pc[t] = "gate_true"
    /\ tp >= now
    /\ now' = tp
    /\ LET r == get_info(blacklist, ev[t].user, tp)
       IN  /\ blacklist' = r[2]
           /\ sent' = [sent EXCEPT ![t] = IF r[1].found THEN "ban_notice" ELSE "silent"]
           /\ minutesSent' = [minutesSent EXCEPT ![t] = r[1].remaining_minutes]
    /\ isb' = [isb EXCEPT ![t] = "none"]
    /\ pc' = [pc EXCEPT ![t] = "done"]
    /\ UNCHANGED <<extVars, hist, adminOps, ev, verdict, chatVars, memVars, affVars>>

\* Where a turn goes once the guard let it through: group turns await
\* bot.get_group_info, private turns run into AIManager.chat at once.
AfterGuard(e) == IF e.group # None THEN "ginfo_wait" ELSE "chat_start"

\* StatsService.record_incoming_message: sqlite3.connect is called outside the
\* try, so a file that cannot be opened raises; an error of the statements is
\* logged and the row is not written.
record_incoming_message(st) ==
    CASE st.file = "unopenable" -> [stats |-> st, raised |-> TRUE]
      [] st.file = "locked" -> [stats |-> st, raised |-> FALSE]
      [] OTHER -> [stats |-> [st EXCEPT !.msg_received = @ + 1], raised |-> FALSE]

\* Matcher step 5 before build_final_user_text, for a message without text and
\* without image: /chat and the mention finish() with a prompt to say
\* something, the private handler returns.
empty_message(handler, text) ==
    IF text # "empty" THEN "go_on"
    ELSE IF handler = "handle_private_chat" THEN "silent" ELSE "prompt"

\* Matcher step 3, in the handler's own task after the guard let the turn
\* through: the statistics are written before anything else happens, and an
\* exception of that call reaches the handler's except clause, which finishes
\* with its error notice.
PassGuard(t) ==
    LET r == record_incoming_message(stats)
        e == empty_message(handlerOf[t], ev[t].text)
    IN  /\ stats' = r.stats
        /\ sent' = [sent EXCEPT ![t] = IF r.raised THEN "handler_error"
                                       ELSE IF e # "go_on" THEN e ELSE @]
        /\ pc' = [pc EXCEPT ![t] = IF r.raised \/ e # "go_on" THEN "done"
                                   ELSE IF ev[t].text = "image_only" THEN "caption_wait"
                                   ELSE AfterGuard(ev[t])]

\* Matcher step 2 on a positive verdict: ban() and finish(); an exception of
\* ban() lands in the except clause and the turn goes on.
OnPositive(t, banOk, tp) ==
    IF banOk
    THEN /\ now' = tp
         /\ UNCHANGED stats
         /\ blacklist' = ban(blacklist, ev[t].user, BlacklistMinutes, tp)
         /\ sent' = [sent EXCEPT ![t] = "guard_notice"]
         /\ minutesSent' = [minutesSent EXCEPT ![t] = BlacklistMinutes]
         /\ pc' = [pc EXCEPT ![t] = "done"]
    ELSE /\ PassGuard(t)
         /\ UNCHANGED <<now, blacklist, minutesSent>>

\* Matcher steps 1-2 up to the first await: the guard is skipped for a short
\* text, tier 1 answers, or the tier-2 request is sent.
guard_start(t, banOk, tp) ==
    /\ pc[t] = "gate_false"
    /\ tp >= now
    /\ isb' = [isb EXCEPT ![t] = "none"]
    /\ IF ev[t].text \in Unguarded
       THEN /\ PassGuard(t)
            /\ UNCHANGED <<now, blacklist, minutesSent, verdict>>
       ELSE IF quick_block(ev[t].text)
       THEN /\ verdict' = [verdict EXCEPT ![t] = "keyword"]
            /\ OnPositive(t, banOk, tp)
       ELSE /\ pc' = [pc EXCEPT ![t] = "guard_wait"]
            /\ UNCHANGED <<now, blacklist, sent, minutesSent, verdict, stats>>
    /\ UNCHANGED <<graph, gop, gcdb, job, org, split, walk, handlerOf, gcrun, wl, hist, adminOps, ev,
                   chatVars, memVars,
                   affVars>>

\* Matcher step 2 after the tier-2 request came back.
guard_response(t, answer, banOk, tp) ==
    /\ SyncFree
    /\ pc[t] = "guard_wait"
    /\ tp >= now
    /\ verdict' = [verdict EXCEPT ![t] = answer]
    /\ IF check(ev[t].text, answer) = "True"
       THEN OnPositive(t, banOk, tp)
       ELSE /\ PassGuard(t)
            /\ UNCHANGED <<now, blacklist, minutesSent>>
    /\ UNCHANGED <<graph, gop, gcdb, job, org, split, walk, handlerOf, gcrun, wl, hist, adminOps, ev, isb,
                   chatVars, memVars,
                   affVars>>

\* build_final_user_text came back for a message of images alone: with a
\* description the turn goes on with it as its text; without one (captioning
\* failed or is disabled) msg_text is empty and the handler returns.
caption_done(t, described) ==
    /\ SyncFree
    /\ pc[t] = "caption_wait"
    /\ IF described
       THEN /\ pc' = [pc EXCEPT ![t] = AfterGuard(ev[t])]
            /\ UNCHANGED sent
       ELSE /\ pc' = [pc EXCEPT ![t] = "done"]
            /\ sent' = [sent EXCEPT ![t] = "silent"]
    /\ UNCHANGED <<extVars, hist, now, blVars, ev, isb, verdict, minutesSent, chatVars, memVars,
                   affVars>>

\* bot.get_group_info came back (or failed: the group id is used as the name).
ginfo_done(t) ==
    /\ SyncFree
    /\ pc[t] = "ginfo_wait"
    /\ pc' = [pc EXCEPT ![t] = "chat_start"]
    /\ verdict' = [verdict EXCEPT ![t] = "none"]
    /\ UNCHANGED <<extVars, hist, now, blVars, ev, isb, sent, minutesSent, chatVars, memVars,
                   affVars>>

\* ------------------------------------------------------------ AIManager.chat

\* An exception reaches the except clause: chat() hands back the fallback and
\* the handler goes on to send it.
Fail(t) ==
    /\ failed' = [failed EXCEPT ![t] = TRUE]
    /\ ret' = [ret EXCEPT ![t] = chat_except]
    /\ pc' = [pc EXCEPT ![t] = IF chat_except = "raised" THEN "done" ELSE "reply_ready"]

\* The vectors search_memory can hit for this event.
Searchable(vs, e) ==
    IF e.group # None
    THEN 1..Len(load_index(vs.gcache[e.group], vs.gfile[e.group]).vecs)
    ELSE 1..Len(load_index(vs.pcache[e.user], vs.pfile[e.user]).vecs)

\* The handler creates the load_history_async task when the scene key has no
\* short-term memory, then chat() runs up to its first await: search_knowledge
\* and search_memory (both synchronous), then the graph retrieval is awaited.
chat_start(t, kb, hits, raises) ==
    /\ pc[t] = "chat_start"
    /\ verdict' = [verdict EXCEPT ![t] = "none"]
    /\ hist' = [hist EXCEPT ![t] =
                    IF has_short_term_memory(shortTerm, memory_key(ev[t]))
                    THEN @ ELSE [user |-> ev[t].user, group |-> ev[t].group]]
    /\ IF raises
       THEN /\ Fail(t)
            /\ UNCHANGED <<kbHit, vstore>>
       ELSE /\ kbHit' = [kbHit EXCEPT ![t] = kb]
            /\ vstore' = search_memory(vstore, ev[t].user, ev[t].text = "short", ev[t].group,
                                       hits, {}, FALSE).vs
            /\ pc' = [pc EXCEPT ![t] = "graph_wait"]
            /\ UNCHANGED <<failed, ret>>
    /\ UNCHANGED <<extVars, now, blVars, ev, isb, sent, minutesSent, reply, shortTerm, found,
                   affVars>>

\* The graph retrieval came back (its failure is swallowed); the temperature
\* lookup creates the affection row; the organizer request is sent.
graph_done(t, tempOk) ==
    /\ SyncFree
    /\ pc[t] = "graph_wait"
    /\ IF ~tempOk
       THEN /\ Fail(t)
            /\ UNCHANGED affection
       ELSE /\ affection' = get_or_create_user(affection, ev[t].user).aff
            /\ pc' = [pc EXCEPT ![t] = "org_wait"]
            /\ UNCHANGED <<failed, ret>>
    /\ UNCHANGED <<extVars, hist, now, blVars, ev, gateVars, kbHit, reply, memVars, affOld>>

\* How the call of the organizer model ended and, when it raised, the setting
\* of fallback.skip_organizer_on_failure the except clause reads.
organizer_call(ok, skip_organizer_on_failure) ==
    IF ok THEN "ok"
    ELSE IF skip_organizer_on_failure THEN "fail_skip" ELSE "fail_noskip"

\* An except clause that raises again whatever the setting.
raise_again(call) ==
    IF call = "ok" THEN "summary" ELSE "raise"

\* _organize_context: the model's summary, or in the except clause the trivial
\* summary "User input: ..." when the setting is true and the exception again
\* when it is false.
_organize_context(call) ==
    CASE call = "ok" -> "summary"
      [] call = "fail_skip" -> "trivial"
      [] OTHER -> "raise"

\* _organize_context came back to chat(): an exception goes to the except
\* clause of chat(), a summary to stage 1.5 or to the generator.
org_done(t, ok, skip_organizer_on_failure) ==
    /\ SyncFree
    /\ pc[t] = "org_wait"
    /\ kbHit' = [kbHit EXCEPT ![t] = FALSE]
    /\ org' = [org EXCEPT ![t] = organizer_call(ok, skip_organizer_on_failure)]
    /\ IF _organize_context(org'[t]) = "raise"
       THEN Fail(t)
       ELSE /\ pc' = [pc EXCEPT ![t] = IF kbHit[t] THEN "kb_wait" ELSE "gen_wait"]
            /\ UNCHANGED <<failed, ret>>
    /\ UNCHANGED <<graph, gop, gcdb, job, stats, split, walk, handlerOf, gcrun, wl, hist, now, blVars, ev,
                   gateVars, reply,
                   memVars,
                   affVars>>

\* _organize_knowledge came back (on failure the raw text is used).
kb_done(t) ==
    /\ SyncFree
    /\ pc[t] = "kb_wait"
    /\ pc' = [pc EXCEPT ![t] = "gen_wait"]
    /\ UNCHANGED <<extVars, hist, now, blVars, ev, gateVars, chatVars, memVars, affVars>>

\* The commit of chat(): short-term append, add_pair_memory, then the affection
\* update is handed to a worker thread.  Both stores take final_reply r.
Commit(t, r, answer) ==
    /\ reply' = [reply EXCEPT ![t] = r]
    /\ shortTerm' = _add_to_short_term_memory(shortTerm, memory_key(ev[t]),
                          [src |-> "live", scene |-> memory_key(ev[t]), n |-> t, reply |-> r])
    /\ vstore' = add_pair_memory(vstore, ev[t].user, [n |-> t, reply |-> r], ev[t].group,
                                 answer)
    /\ pc' = [pc EXCEPT ![t] = "aff_read"]

\* _generate_reply came back: it raised, answered nothing (the fallback string
\* becomes the reply), broke a reply rule, or answered well.
gen_done(t, outcome, answer) ==
    /\ SyncFree
    /\ pc[t] = "gen_wait"
    /\ CASE outcome = "fail" ->
              /\ Fail(t)
              /\ UNCHANGED <<reply, shortTerm, vstore>>
         [] outcome = "violating" ->
              /\ pc' = [pc EXCEPT ![t] = "rewrite_wait"]
              /\ UNCHANGED <<failed, ret, reply, shortTerm, vstore>>
         [] outcome = "empty" ->
              /\ Commit(t, "error_reply", answer)
              /\ UNCHANGED <<failed, ret>>
         [] OTHER ->
              /\ Commit(t, "reply", answer)
              /\ UNCHANGED <<failed, ret>>
    /\ UNCHANGED <<extVars, hist, now, blVars, ev, gateVars, kbHit, found, affVars>>

\* A chat() that went on with the generator's first reply.
keep_first_reply(outcome) == "reply"

\* persona_guard.check_reply_rules, first component: no pattern of the reply
\* blacklist matches.  The texts that match are the generator's answers called
\* "violating".
check_reply_rules(text) == text \notin {"violating", "rewritten_violating"}

\* What _correction_rewrite returns: the text of its one generator call (which
\* can match the reply blacklist as the first one did), the fallback string for
\* an empty answer, or "......" when the call failed.
_correction_rewrite(outcome) ==
    CASE outcome = "fail" -> "dots"
      [] outcome = "empty" -> "error_reply"
      [] outcome = "violating" -> "rewritten_violating"
      [] OTHER -> "rewritten"

\* _correction_rewrite came back: what it returns is final_reply from here on.
rewrite_done(t, outcome, answer) ==
    /\ SyncFree
    /\ pc[t] = "rewrite_wait"
    /\ Commit(t, _correction_rewrite(outcome), answer)
    /\ UNCHANGED <<extVars, hist, now, blVars, ev, gateVars, kbHit, ret, failed, found, affVars>>

\* Worker thread, first transaction of _update_affection_sync:
\* get_or_create_user.  A database error ends the worker with the exception.
AffRead(t, dbOk) ==
    /\ pc[t] = "aff_read"
    /\ IF dbOk
       THEN LET r == get_or_create_user(affection, ev[t].user)
            IN  /\ affection' = r.aff
                /\ affOld' = [affOld EXCEPT ![t] = r.score]
                /\ pc' = [pc EXCEPT ![t] = "aff_write"]
                /\ UNCHANGED failed
       ELSE /\ failed' = [failed EXCEPT ![t] = TRUE]
            /\ pc' = [pc EXCEPT ![t] = "aff_done"]
            /\ UNCHANGED affVars
    /\ UNCHANGED <<extVars, hist, now, blVars, ev, gateVars, kbHit, reply, ret, memVars>>

\* Worker thread, second transaction: the new score from the score read, the
\* level derived from it, update_user.
AffWrite(t, raw) ==
    /\ pc[t] = "aff_write"
    /\ LET new_score == NewScore(affOld[t], raw)
       IN  affection' = update_user(affection, ev[t].user, new_score, score_to_level(new_score))
    /\ affOld' = [affOld EXCEPT ![t] = 0]
    /\ pc' = [pc EXCEPT ![t] = "aff_done"]
    /\ UNCHANGED <<extVars, hist, now, blVars, ev, gateVars, chatVars, memVars>>

\* The await of update_affection ends: chat() returns final_reply, or the
\* worker's exception reaches the except clause.
chat_return(t) ==
    /\ SyncFree
    /\ pc[t] = "aff_done"
    /\ ret' = [ret EXCEPT ![t] = IF failed[t] THEN chat_except ELSE reply[t]]
    /\ reply' = [reply EXCEPT ![t] = "none"]
    /\ pc' = [pc EXCEPT ![t] = IF failed[t] /\ chat_except = "raised" THEN "done"
                               ELSE "reply_ready"]
    /\ UNCHANGED <<extVars, hist, now, blVars, ev, gateVars, kbHit, failed, memVars, affVars>>

\* The handler sends what chat() returned through the splitter and returns.
send_reply(t) ==
    /\ SyncFree
    /\ pc[t] = "reply_ready"
    /\ sent' = [sent EXCEPT ![t] = ret[t]]
    /\ ret' = [ret EXCEPT ![t] = "none"]
    /\ failed' = [failed EXCEPT ![t] = FALSE]
    /\ ev' = [ev EXCEPT ![t] = NoEvent]
    /\ pc' = [pc EXCEPT ![t] = "done"]
    /\ org' = [org EXCEPT ![t] = "none"]
    /\ UNCHANGED <<graph, gop, gcdb, job, stats, split, walk, handlerOf, gcrun, wl, hist, now, blVars,
                   isb, verdict,
                   minutesSent, kbHit,
                   reply, memVars, affVars>>

\* matcher.load_history_async: the task created by turn t gets the adapter's
\* answer (ok) or an exception (swallowed), and stores the pairs.
NoLoad == [user |-> None, group |-> None]

load_history_async(t, messages, ok) ==
    /\ SyncFree
    /\ hist[t] # NoLoad
    /\ hist' = [hist EXCEPT ![t] = NoLoad]
    /\ shortTerm' =
           IF ~ok THEN shortTerm
           ELSE IF hist[t].group # None
           THEN load_group_history_from_napcat(shortTerm, hist[t].group, hist[t].user, messages)
           ELSE load_history_from_napcat(shortTerm, hist[t].user, messages)
    /\ UNCHANGED <<extVars, now, blVars, pc, ev, gateVars, chatVars, vstore, found, affVars>>

\* -------------------------------------------------------- admin and scheduler

\* admin_cmd.handle_ban: /ban <user> [minutes]
handle_ban(u, minutes, tp) ==
    /\ SyncFree
    /\ adminOps < MaxAdminOps
    /\ adminOps' = adminOps + 1
    /\ tp >= now
    /\ now' = tp
    /\ blacklist' = ban(blacklist, u, minutes, tp)
    /\ UNCHANGED <<extVars, hist, pc, ev, gateVars, chatVars, memVars, affVars>>

\* admin_cmd.handle_unban: /unban <user>
handle_unban(u) ==
    /\ SyncFree
    /\ adminOps < MaxAdminOps
    /\ adminOps' = adminOps + 1
    /\ blacklist' = unban(blacklist, u)
    /\ UNCHANGED <<extVars, hist, now, pc, ev, gateVars, chatVars, memVars, affVars>>

\* bot.py scheduled_blacklist_cleanup (every 10 minutes).
scheduled_blacklist_cleanup(tp) ==
    /\ SyncFree
    /\ tp >= now
    /\ now' = tp
    /\ blacklist # cleanup_expired(blacklist, tp)
    /\ blacklist' = cleanup_expired(blacklist, tp)
    /\ UNCHANGED <<extVars, hist, adminOps, pc, ev, gateVars, chatVars, memVars, affVars>>

\* ------------------------------------------------------------ specification

\* The callers of gc_user: the job bot.py registers, the job the memory_gc
\* plugin registers, and the /debot command.
GcCallers == {"memory_gc", "memory_gc_job", "debot"}

\* No gc_user call of a caller awaits.
NoRun == [cur |-> None, old_ids |-> {}]

\* security.py: no event yet, nothing cached, the whitelist switched off.
NoWlEvent == [kind |-> None, user |-> None, group |-> None]
NoWl ==
    [config |-> [enable |-> FALSE, allow_all_private |-> FALSE, allowed_users |-> {},
                 allowed_groups |-> {}],
     cache |-> {},
     alive |-> <<NoWlEvent, NoWlEvent>>,
     out |-> [event |-> NoWlEvent, result |-> FALSE]]

NoSearch == [user |-> None, group |-> None, cross_scene |-> FALSE, hit_group |-> FALSE,
             rows |-> {}]

\* Everything but the short-term buffers, the affection rows and the stores a
\* dedicated specification starts from.
InitButShortTerm ==
    /\ now = 0
    /\ blacklist = {}
    /\ adminOps = 0
    /\ pc = [t \in Turns |-> "idle"]
    /\ ev = [t \in Turns |-> NoEvent]
    /\ isb = [t \in Turns |-> "none"]
    /\ verdict = [t \in Turns |-> "none"]
    /\ kbHit = [t \in Turns |-> FALSE]
    /\ reply = [t \in Turns |-> "none"]
    /\ ret = [t \in Turns |-> "none"]
    /\ failed = [t \in Turns |-> FALSE]
    /\ sent = [t \in Turns |-> "none"]
    /\ minutesSent = [t \in Turns |-> -1]
    /\ vstore = EmptyStore
    /\ found = NoSearch
    /\ affOld = [t \in Turns |-> 0]
    /\ hist = [t \in Turns |-> NoLoad]
    /\ gop = NoOp
    /\ job = NoJob
    /\ org = [t \in Turns |-> "none"]
    /\ stats = [file |-> "ok", msg_received |-> 0]
    /\ walk = [entity |-> -1, w |-> NoWalk]

\* AIManager.__init__: _short_term_memory = {}
InitButAffection ==
    /\ InitButShortTerm
    /\ shortTerm = [k \in Users \cup Groups |-> <<>>]
    /\ gcrun = [c \in GcCallers |-> NoRun]
    /\ wl = NoWl

\* A splitter that was given nothing yet.
NoSplit == [enabled |-> TRUE, split_threshold |-> 0, text |-> <<>>, out |-> <<>>]

Init ==
    /\ InitButAffection
    /\ handlerOf = [t \in Turns |-> "handle_chat_command"]
    /\ graph = EmptyGraph
    /\ split = NoSplit
    /\ affection = [u \in Users |-> NoAffection]
    /\ gcdb = NoGcDbs

\* Every step of a turn and the scheduled blacklist cleanup, under the default
\* fallback.skip_organizer_on_failure = False.
Next ==
    \/ \E t \in Turns, u \in Users, g \in Groups \cup {None}, text \in TextKinds,
          tp \in TimePoints : handle_is_blocked(t, u, g, text, tp)
    \/ \E t \in Turns, tp \in TimePoints : gate_info(t, tp)
    \/ \E t \in Turns, banOk \in BOOLEAN, tp \in TimePoints : guard_start(t, banOk, tp)
    \/ \E t \in Turns, answer \in GuardAnswers, banOk \in BOOLEAN, tp \in TimePoints :
           guard_response(t, answer, banOk, tp)
    \/ \E t \in Turns : ginfo_done(t)
    \/ \E t \in Turns, kb \in BOOLEAN, raises \in BOOLEAN :
           /\ pc[t] = "chat_start"
           /\ \E hits \in SUBSET Searchable(vstore, ev[t]) : chat_start(t, kb, hits, raises)
    \/ \E t \in Turns, tempOk \in BOOLEAN : graph_done(t, tempOk)
    \/ \E t \in Turns, ok \in BOOLEAN : org_done(t, ok, FALSE)
    \/ \E t \in Turns : kb_done(t)
    \/ \E t \in Turns, outcome \in {"ok", "violating", "empty", "fail"},
          answer \in EmbedAnswers : gen_done(t, outcome, answer)
    \/ \E t \in Turns, outcome \in {"ok", "empty", "fail"}, answer \in EmbedAnswers :
           rewrite_done(t, outcome, answer)
    \/ \E t \in Turns, dbOk \in BOOLEAN : AffRead(t, dbOk)
    \/ \E t \in Turns : AffWrite(t, BaseDelta)
    \/ \E t \in Turns : chat_return(t)
    \/ \E t \in Turns : send_reply(t)
    \/ \E tp \in TimePoints : scheduled_blacklist_cleanup(tp)

Spec == Init /\ [][Next]_vars

\* The short-term memory with all its writers: turns that pass the gate and the
\* guard (a short text, so the guard is skipped) and are answered, and the
\* history tasks they create.
NextHistory ==
    \/ \E t \in Turns, u \in Users, g \in Groups \cup {None} :
           handle_is_blocked(t, u, g, "short", now)
    \/ \E t \in Turns : guard_start(t, TRUE, now)
    \/ \E t \in Turns : ginfo_done(t)
    \/ \E t \in Turns : chat_start(t, FALSE, {}, FALSE)
    \/ \E t \in Turns : graph_done(t, TRUE)
    \/ \E t \in Turns : org_done(t, TRUE, TRUE)
    \/ \E t \in Turns : gen_done(t, "ok", "ok")
    \/ \E t \in Turns : AffRead(t, TRUE)
    \/ \E t \in Turns : AffWrite(t, BaseDelta)
    \/ \E t \in Turns : chat_return(t)
    \/ \E t \in Turns : send_reply(t)
    \/ \E t \in Turns, messages \in Histories, ok \in BOOLEAN :
           load_history_async(t, messages, ok)

SpecHistory == Init /\ [][NextHistory]_vars

\* The buffers after many turns: the n latest live pairs of a scene, oldest
\* first (turn -n is the oldest, turn -1 the latest).
Filled(key, n) ==
    [i \in 1..n |-> [src |-> "live", scene |-> key, n |-> i - n - 1, reply |-> "ok"]]

\* Empty, one short of the capacity, and full.
FillLevels == {0, _max_short_term_rounds - 1, _max_short_term_rounds}

InitBuffer ==
    /\ InitButShortTerm
    /\ \E n \in [Users \cup Groups -> FillLevels] :
          shortTerm = [k \in Users \cup Groups |-> Filled(k, n[k])]
    /\ gcrun = [c \in GcCallers |-> NoRun]
    /\ wl = NoWl
    /\ handlerOf = [t \in Turns |-> "handle_chat_command"]
    /\ graph = EmptyGraph
    /\ split = NoSplit
    /\ affection = [u \in Users |-> NoAffection]
    /\ gcdb = NoGcDbs

\* The turns of SpecHistory on buffers of every fill level.
NextBuffer ==
    \/ \E t \in Turns, u \in Users, g \in Groups \cup {None} :
           handle_is_blocked(t, u, g, "short", now)
    \/ \E t \in Turns : guard_start(t, TRUE, now)
    \/ \E t \in Turns : ginfo_done(t)
    \/ \E t \in Turns : chat_start(t, FALSE, {}, FALSE)
    \/ \E t \in Turns : graph_done(t, TRUE)
    \/ \E t \in Turns : org_done(t, TRUE, TRUE)
    \/ \E t \in Turns : gen_done(t, "ok", "ok")
    \/ \E t \in Turns : AffRead(t, TRUE)
    \/ \E t \in Turns : AffWrite(t, BaseDelta)
    \/ \E t \in Turns : chat_return(t)
    \/ \E t \in Turns : send_reply(t)
    \/ \E t \in Turns, messages \in Histories, ok \in BOOLEAN :
           load_history_async(t, messages, ok)

SpecBuffer == InitBuffer /\ [][NextBuffer]_vars

\* The reply pipeline alone: turns whose text is too short for the guard, with
\* every outcome of every stage of chat().
NextChat ==
    \/ \E t \in Turns, u \in Users, g \in Groups \cup {None} :
           handle_is_blocked(t, u, g, "short", now)
    \/ \E t \in Turns : guard_start(t, TRUE, now)
    \/ \E t \in Turns : ginfo_done(t)
    \/ \E t \in Turns, kb \in BOOLEAN, raises \in BOOLEAN : chat_start(t, kb, {}, raises)
    \/ \E t \in Turns, tempOk \in BOOLEAN : graph_done(t, tempOk)
    \/ \E t \in Turns, ok \in BOOLEAN, skip \in BOOLEAN : org_done(t, ok, skip)
    \/ \E t \in Turns : kb_done(t)
    \/ \E t \in Turns, outcome \in {"ok", "violating", "empty", "fail"},
          answer \in EmbedAnswers : gen_done(t, outcome, answer)
    \/ \E t \in Turns, outcome \in {"ok", "empty", "fail"}, answer \in EmbedAnswers :
           rewrite_done(t, outcome, answer)
    \/ \E t \in Turns, dbOk \in BOOLEAN : AffRead(t, dbOk)
    \/ \E t \in Turns : AffWrite(t, BaseDelta)
    \/ \E t \in Turns : chat_return(t)
    \/ \E t \in Turns : send_reply(t)

SpecChat == Init /\ [][NextChat]_vars

\* The reply pipeline with a corrective call whose answer matches the reply
\* blacklist again.
NextRewrite ==
    \/ NextChat
    \/ \E t \in Turns, answer \in EmbedAnswers : rewrite_done(t, "violating", answer)

SpecRewrite == Init /\ [][NextRewrite]_vars

\* The file of stats.db changes under the bot: it is locked by another writer,
\* cannot be opened any more, or is in order again.
stats_db_changes(file) ==
    /\ SyncFree
    /\ file # stats.file
    /\ stats' = [stats EXCEPT !.file = file]
    /\ UNCHANGED <<graph, gop, gcdb, job, org, split, walk, handlerOf, gcrun, wl, hist, now, blVars, pc,
                   ev, gateVars, chatVars,
                   memVars, affVars>>

\* The handler from the gate to the sent reply over a stats.db in any state,
\* the stages of chat() answering well or the generator failing.
NextStats ==
    \/ \E t \in Turns, u \in Users, g \in Groups \cup {None}, text \in TextKinds :
           handle_is_blocked(t, u, g, text, now)
    \/ \E t \in Turns : gate_info(t, now)
    \/ \E t \in Turns : guard_start(t, TRUE, now)
    \/ \E t \in Turns, answer \in GuardAnswers : guard_response(t, answer, TRUE, now)
    \/ \E t \in Turns : ginfo_done(t)
    \/ \E t \in Turns : chat_start(t, FALSE, {}, FALSE)
    \/ \E t \in Turns : graph_done(t, TRUE)
    \/ \E t \in Turns : org_done(t, TRUE, FALSE)
    \/ \E t \in Turns, outcome \in {"ok", "fail"} : gen_done(t, outcome, "ok")
    \/ \E t \in Turns : AffRead(t, TRUE)
    \/ \E t \in Turns : AffWrite(t, BaseDelta)
    \/ \E t \in Turns : chat_return(t)
    \/ \E t \in Turns : send_reply(t)
    \/ \E file \in {"ok", "locked", "unopenable"} : stats_db_changes(file)

SpecStats == Init /\ [][NextStats]_vars

\* The three handlers on messages with and without text, every stage of chat()
\* answering well.
InitEntry ==
    /\ InitButAffection
    /\ affection = [u \in Users |-> NoAffection]
    /\ gcdb = NoGcDbs
    /\ split = NoSplit
    /\ graph = EmptyGraph
    /\ handlerOf \in [Turns -> Handlers]

NextEntry ==
    \/ \E t \in Turns, u \in Users, g \in Groups \cup {None}, text \in Unguarded :
           /\ handlerOf[t] = "handle_private_chat" => g = None
           /\ handlerOf[t] = "handle_mention" => g # None
           /\ handle_is_blocked(t, u, g, text, now)
    \/ \E t \in Turns : guard_start(t, TRUE, now)
    \/ \E t \in Turns, described \in BOOLEAN : caption_done(t, described)
    \/ \E t \in Turns : ginfo_done(t)
    \/ \E t \in Turns : chat_start(t, FALSE, {}, FALSE)
    \/ \E t \in Turns : graph_done(t, TRUE)
    \/ \E t \in Turns : org_done(t, TRUE, FALSE)
    \/ \E t \in Turns : gen_done(t, "ok", "ok")
    \/ \E t \in Turns : AffRead(t, TRUE)
    \/ \E t \in Turns : AffWrite(t, BaseDelta)
    \/ \E t \in Turns : chat_return(t)
    \/ \E t \in Turns : send_reply(t)

SpecEntry == InitEntry /\ [][NextEntry]_vars

\* The blacklist with all its callers: the gate and the guard of turns that
\* carry a tier-1 keyword (each ends at the gate or with the ban), the admin
\* commands and the scheduled cleanup.
NextBlacklist ==
    \/ \E t \in Turns, u \in Users, g \in Groups \cup {None}, tp \in TimePoints :
           handle_is_blocked(t, u, g, "keyword", tp)
    \/ \E t \in Turns, tp \in TimePoints : gate_info(t, tp)
    \/ \E t \in Turns, tp \in TimePoints : guard_start(t, TRUE, tp)
    \/ \E u \in Users, minutes \in AdminMinutes, tp \in TimePoints :
           handle_ban(u, minutes, tp)
    \/ \E u \in Users : handle_unban(u)
    \/ \E tp \in TimePoints : scheduled_blacklist_cleanup(tp)

SpecBlacklist == Init /\ [][NextBlacklist]_vars

\* --------------------------------------------------- the memory store alone

\* A turn's commit stores its pair (add_pair_memory).
StorePair(u, g, answer) ==
    /\ vstore.udb[u].pseq + vstore.udb[u].gseq < MaxMemories
    /\ g # None => vstore.gdb[g].mseq < MaxMemories
    /\ vstore' = add_pair_memory(vstore, u, 0, g, answer)
    /\ UNCHANGED <<extVars, hist, now, blVars, pc, ev, gateVars, chatVars, shortTerm, found,
                   affVars>>

\* A retrieval (search_memory), by any caller: cross_scene is the caller's.
Search(u, g, short, hits, others, cross_scene) ==
    /\ LET r == search_memory(vstore, u, short, g, hits, others, cross_scene)
           m == load_index(vstore.pcache[u], vstore.pfile[u]).id_map
       IN  /\ vstore' = r.vs
           /\ found' = [user |-> u, group |-> g, cross_scene |-> cross_scene,
                        hit_group |-> /\ ~short
                                      /\ g = None
                                      /\ \E i \in hits : i <= Len(m) /\ m[i].tag = "group",
                        rows |-> r.rows]
    /\ UNCHANGED <<extVars, hist, now, blVars, pc, ev, gateVars, chatVars, shortTerm, affVars>>

\* The process dies inside the flush of an insert, between faiss.write_index and
\* pickle.dump of _save_private_index: the row is committed, the index file is
\* the new one, the id-map file is the old one, and nothing is cached any more.
save_index_until_crash(cache, file) ==
    [index_exists |-> TRUE, vecs |-> cache.vecs,
     map_exists |-> file.map_exists, id_map |-> file.id_map]

CrashInFlush(u, g) ==
    /\ vstore.udb[u].pseq + vstore.udb[u].gseq < MaxMemories
    /\ LET file == vstore.pfile[u]
           a == IF g # None THEN _add_to_user_group_memory(vstore, u, g, 0, "unit")
                ELSE _add_to_user_private_memory(vstore, u, 0, "unit")
       IN  vstore' = [a.vs EXCEPT !.pfile[u] = save_index_until_crash(a.vs.pcache[u], file),
                                  !.pcache = [x \in Users |-> NotLoaded],
                                  !.gcache = [x \in Groups |-> NotLoaded]]
    /\ UNCHANGED <<extVars, hist, now, blVars, pc, ev, gateVars, chatVars, shortTerm, found,
                   affVars>>

\* clear_user_memory(u)
ClearUser(u) ==
    /\ vstore.udb[u].exists
    /\ vstore' = clear_user_memory(vstore, u)
    /\ UNCHANGED <<extVars, hist, now, blVars, pc, ev, gateVars, chatVars, shortTerm, found,
                   affVars>>

\* The process restarts: the indices are read from their files again.
Restart ==
    /\ \/ \E u \in Users : vstore.pcache[u].loaded
       \/ \E g \in Groups : vstore.gcache[g].loaded
    /\ vstore' = [vstore EXCEPT !.pcache = [u \in Users |-> NotLoaded],
                                !.gcache = [g \in Groups |-> NotLoaded]]
    /\ UNCHANGED <<extVars, hist, now, blVars, pc, ev, gateVars, chatVars, shortTerm, found,
                   affVars>>

NextVector ==
    \/ \E u \in Users, g \in Groups \cup {None}, answer \in EmbedAnswers :
           StorePair(u, g, answer)
    \/ \E u \in Users, g \in Groups \cup {None}, cross_scene \in BOOLEAN :
           \/ Search(u, g, TRUE, {}, {}, cross_scene)
           \/ \E hits \in SUBSET Searchable(vstore, [user |-> u, group |-> g]),
                 others \in IF g # None /\ cross_scene THEN SUBSET (1..vstore.udb[u].gseq)
                            ELSE {{}} :
                  Search(u, g, FALSE, hits, others, cross_scene)
    \/ \E u \in Users : ClearUser(u)
    \/ Restart
    \/ \E u \in Users, g \in Groups \cup {None} : CrashInFlush(u, g)

SpecVector == Init /\ [][NextVector]_vars

\* ----------------------------------------------- the affection service alone

\* A turn's commit reaches update_affection: the worker thread starts.
update_affection(t, u) ==
    /\ pc[t] = "idle"
    /\ \A t2 \in Turns : t2 < t => pc[t2] # "idle"
    /\ pc' = [pc EXCEPT ![t] = "aff_read"]
    /\ ev' = [ev EXCEPT ![t] = [user |-> u, group |-> None, text |-> "plain"]]
    /\ UNCHANGED <<extVars, hist, now, blVars, gateVars, chatVars, memVars, affVars>>

\* web/router.py affection_update -> AffectionService.admin_update_score (a
\* worker thread, one transaction).
admin_update_score(u, new_score) ==
    /\ adminOps < MaxAdminOps
    /\ adminOps' = adminOps + 1
    /\ affection' = _admin_update_score_sync(affection, u, new_score)
    /\ UNCHANGED <<extVars, hist, now, blacklist, pc, ev, gateVars, chatVars, memVars, affOld>>

InitAffection ==
    /\ InitButAffection
    /\ handlerOf = [t \in Turns |-> "handle_chat_command"]
    /\ graph = EmptyGraph
    /\ split = NoSplit
    /\ gcdb = NoGcDbs
    /\ affection \in [Users -> {NoAffection} \cup StartRecords]

NextAffection ==
    \/ \E t \in Turns, u \in Users : update_affection(t, u)
    \/ \E t \in Turns, dbOk \in BOOLEAN : AffRead(t, dbOk)
    \/ \E t \in Turns, raw \in RawDeltas : AffWrite(t, raw)
    \/ \E u \in Users, new_score \in AdminScores : admin_update_score(u, new_score)

SpecAffection == InitAffection /\ [][NextAffection]_vars

\* ------------------------------------------------------ the knowledge graph alone

\* gop = [op, user, keyword, merged]: the keyword is that of a retrieval; what
\* it returned is retrieve_with_graph(graph, user, keyword) as long as gop
\* stays.  merged is the main entity followed by the duplicates a cleaning
\* step merged into it.
\* What the extractor answers for a dialogue: one entity (with or without an
\* alias) or one relation, between any two names.
EntityInputs ==
    {<<>>} \cup {<<[name |-> e, alias |-> a]>> : e \in Entities, a \in Aliases \cup {None}}
RelationInputs ==
    {<<>>} \cup {<<[source |-> a, target |-> b, relation |-> r]>> :
                    a \in Entities, b \in Entities, r \in Relations}

\* The duplicates the cleaning model names for a main entity: none, one or two
\* names, in the order it lists them; a run merges one group or deletes one
\* entity.
DupInputs ==
    {<<>>} \cup {<<a>> : a \in Entities}
           \cup {d \in {<<a, b>> : a \in Entities, b \in Entities} : d[1] # d[2]}

\* GraphRetriever.add_dialogue_to_graph, after the extractor's answer.
add_dialogue_to_graph(u, entities, relations) ==
    /\ (entities = <<>>) # (relations = <<>>)
    /\ LET g == AddEdges(AddNodes(graph, u, entities), u, relations)
       IN  /\ Cardinality(g.edges) <= MaxEdges
           /\ \A e \in g.edges : e.weight <= MaxWeight
           /\ graph' = g
    /\ gop' = [NoOp EXCEPT !.op = "add_dialogue", !.user = u]
    /\ UNCHANGED <<gcdb, job, org, stats, split, walk, handlerOf, gcrun, wl, hist, now, blVars, pc, ev,
                   gateVars, chatVars,
                   memVars, affVars>>

\* GraphRetriever.retrieve_with_graph, after the keywords were extracted.
retrieve(u, keyword) ==
    /\ gop' = [NoOp EXCEPT !.op = "retrieve", !.user = u, !.keyword = keyword]
    /\ UNCHANGED <<graph, gcdb, job, org, stats, split, walk, handlerOf, gcrun, wl, hist, now, blVars, pc,
                   ev, gateVars, chatVars,
                   memVars, affVars>>

\* ------------------------------------------------------------ scheduled jobs
\* job = [kind, todo, cur, pair, old_ids, raised]: the users still to do and the
\* user whose processing awaits a model call (old_ids: the rows memory GC
\* selected for the summary); after a run that an exception ended,
\* raised is set and todo holds the users the run did not get to.

\* The job's loop moved past a user: it ends when none is left.
JobAfter(j) ==
    IF j.todo = <<>> THEN NoJob ELSE [j EXCEPT !.cur = None, !.pair = FALSE, !.old_ids = {}]

\* An exception left the job's loop: the run is over, the rest is not done.
JobRaised(j) == [NoJob EXCEPT !.todo = j.todo, !.raised = TRUE]

\* The orders get_users can list the users in: by node count, descending.
UserOrders(g) ==
    LET us == get_users(g)
        count(u) == Cardinality({n \in g.nodes : n.user_id = u})
    IN  {q \in UNION {[1..k -> us] : k \in {Cardinality(us)}} :
            /\ \A i, j \in DOMAIN q : i # j => q[i] # q[j]
            /\ \A i, j \in DOMAIN q : i < j => count(q[i]) >= count(q[j])}

\* bot.py scheduled_rag_cleanup -> AIGraphCleaner.ai_cleanup_all_users: the
\* user list is read.
scheduled_rag_cleanup(users) ==
    /\ job.kind = "none"
    /\ users \in UserOrders(graph)
    /\ users # <<>>
    /\ job' = [NoJob EXCEPT !.kind = "rag", !.todo = users]
    /\ UNCHANGED <<graph, gop, gcdb, org, stats, split, walk, handlerOf, gcrun, wl, hist, now, blVars, pc,
                   ev, gateVars, chatVars,
                   memVars, affVars>>

\* ai_cleanup_user, steps 1-3: the entities are read and the model is asked.  A
\* user without entities is done at once.
ai_cleanup_user_read ==
    /\ job.kind = "rag" /\ job.cur = None /\ job.todo # <<>>
    /\ LET u == Head(job.todo)
           entities == {n \in graph.nodes : n.user_id = u}
           j == [job EXCEPT !.todo = Tail(@)]
       IN  job' = IF entities = {} THEN JobAfter(j)
                  ELSE [j EXCEPT !.cur = u, !.pair = Cardinality(entities) >= 2]
    /\ UNCHANGED <<graph, gop, gcdb, org, stats, split, walk, handlerOf, gcrun, wl, hist, now, blVars, pc,
                   ev, gateVars, chatVars,
                   memVars, affVars>>

\* ai_cleanup_user, step 4, with what the model named.  The database is opened
\* when the model named something; an error of it is not caught before
\* scheduled_rag_cleanup.
ai_cleanup_user_apply(main_entity, duplicates, useless, dbOk) ==
    /\ job.kind = "rag" /\ job.cur # None
    /\ duplicates # <<>> => job.pair /\ useless = {}
    /\ ~dbOk => duplicates # <<>> \/ useless # {}
    /\ IF dbOk
       THEN /\ graph' = ApplyCleanup(graph, job.cur, main_entity, duplicates, useless)
            /\ job' = JobAfter(job)
       ELSE /\ graph' = graph
            /\ job' = JobRaised(job)
    /\ gop' = [NoOp EXCEPT !.op = "cleanup", !.user = job.cur,
                         !.merged = IF dbOk /\ duplicates # <<>>
                                    THEN <<main_entity>> \o duplicates ELSE <<>>]
    /\ UNCHANGED <<gcdb, org, stats, split, walk, handlerOf, gcrun, wl, hist, now, blVars, pc, ev,
                   gateVars, chatVars,
                   memVars, affVars>>

\* The graph as the turns use it: written after a reply, read before one.
NextGraph ==
    \/ \E u \in Users, entities \in EntityInputs, relations \in RelationInputs :
           add_dialogue_to_graph(u, entities, relations)
    \/ \E u \in Users, keyword \in Entities \cup Aliases : retrieve(u, keyword)

SpecGraph == Init /\ [][NextGraph]_vars

\* The graph under the scheduled cleaning: dialogues add entities (no alias)
\* and relations (each told once), the job merges and deletes.
NextCleanup ==
    \/ \E u \in Users, entities \in EntityInputs, relations \in RelationInputs :
           /\ \A i \in DOMAIN entities : entities[i].alias = None
           /\ \A i \in DOMAIN relations :
                  EdgesOf(graph, u, relations[i].source, relations[i].target,
                          relations[i].relation) = {}
           /\ add_dialogue_to_graph(u, entities, relations)
    \/ \E users \in UserOrders(graph) : scheduled_rag_cleanup(users)
    \/ ai_cleanup_user_read
    \/ \E main_entity \in Entities, duplicates \in DupInputs,
          useless \in {{}} \cup {{e} : e \in Entities}, dbOk \in BOOLEAN :
           /\ duplicates = <<>> => main_entity = CHOOSE e \in Entities : TRUE
           /\ ai_cleanup_user_apply(main_entity, duplicates, useless, dbOk)

SpecCleanup == Init /\ [][NextCleanup]_vars

\* ------------------------------------------------------ memory GC, scheduled

\* The orders a set of users can be listed in.
Orders(S) ==
    {q \in [1..Cardinality(S) -> S] : \A i, j \in DOMAIN q : i # j => q[i] # q[j]}

\* bot.py scheduled_memory_gc -> MemoryGCService.gc_all_users: the directories
\* are listed.
scheduled_memory_gc(user_ids) ==
    /\ job.kind = "none"
    /\ user_ids \in Orders(get_all_user_ids(gcdb))
    /\ user_ids # <<>>
    /\ job' = [NoJob EXCEPT !.kind = "gc", !.todo = user_ids]
    /\ UNCHANGED <<graph, gop, gcdb, org, stats, split, walk, handlerOf, gcrun, wl, hist, now, blVars, pc,
                   ev, gateVars, chatVars,
                   memVars, affVars>>

\* gc_user up to its await: the count, the deletion above the threshold, the
\* selection of the rows to summarise.  A database error is caught inside
\* get_user_memory_count and delete_oldest.
gc_user(dbOk) ==
    /\ job.kind = "gc" /\ job.cur = None /\ job.todo # <<>>
    /\ LET u == Head(job.todo)
           j == [job EXCEPT !.todo = Tail(@)]
           before_count == get_user_memory_count(vstore, gcdb, u, dbOk)
           gd == IF before_count > DELETE_THRESHOLD
                 THEN delete_oldest(vstore, gcdb, u, DELETE_RATIO, dbOk)
                 ELSE gcdb
           current_count == get_user_memory_count(vstore, gd, u, dbOk)
           old_ids == IF current_count > SUMMARIZE_THRESHOLD
                      THEN get_oldest_memories(vstore, gd, u,
                                               ceil_ratio(current_count, SUMMARIZE_RATIO))
                      ELSE {}
       IN  /\ gcdb' = gd
           /\ job' = IF old_ids # {} THEN [j EXCEPT !.cur = u, !.old_ids = old_ids]
                     ELSE JobAfter(j)
    /\ UNCHANGED <<graph, gop, org, stats, split, walk, handlerOf, gcrun, wl, hist, now, blVars, pc, ev,
                   gateVars, chatVars,
                   memVars, affVars>>

\* summarize_memories asks the model once for every BATCH_SIZE documents.
batches(len) == (len + BATCH_SIZE - 1) \div BATCH_SIZE

\* gc_user after summarize_memories answered with n summaries (a batch whose
\* answer is empty gives none): they replace the selected rows.  A database error is caught
\* inside insert_summary_and_delete.
gc_user_summarized(n, dbOk) ==
    /\ job.kind = "gc" /\ job.cur # None
    /\ n \in 0..batches(Cardinality(job.old_ids))
    /\ gcdb' = IF n > 0 /\ dbOk
               THEN insert_summary_and_delete(gcdb, job.cur, job.old_ids, n, now)
               ELSE gcdb
    /\ job' = JobAfter(job)
    /\ UNCHANGED <<graph, gop, org, stats, split, walk, handlerOf, gcrun, wl, hist, now, blVars, pc, ev,
                   gateVars, chatVars,
                   memVars, affVars>>

\* The memory store under the turns' commits and the scheduled GC, from every
\* content of private/<user>/.
InitGC ==
    /\ InitButAffection
    /\ handlerOf = [t \in Turns |-> "handle_chat_command"]
    /\ graph = EmptyGraph
    /\ split = NoSplit
    /\ affection = [u \in Users |-> NoAffection]
    /\ gcdb \in [JobUsers -> StartDbs]

NextGC ==
    \/ \E u \in Users, g \in Groups \cup {None}, answer \in EmbedAnswers :
           StorePair(u, g, answer)
    \/ \E user_ids \in Orders(get_all_user_ids(gcdb)) : scheduled_memory_gc(user_ids)
    \/ \E dbOk \in BOOLEAN : gc_user(dbOk)
    \/ \E n \in 0..BATCH_SIZE, dbOk \in BOOLEAN : gc_user_summarized(n, dbOk)

SpecGC == InitGC /\ [][NextGC]_vars

\* The two scheduled jobs over two users: dialogues name one entity, the
\* cleaning model calls entities useless, memory GC finds the databases that
\* lie under private/.
NextJobs ==
    \/ \E u \in JobUsers, entities \in EntityInputs :
           /\ \A i \in DOMAIN entities :
                  entities[i].alias = None /\ entities[i].name = CHOOSE e \in Entities : TRUE
           /\ add_dialogue_to_graph(u, entities, <<>>)
    \/ \E users \in UserOrders(graph) : scheduled_rag_cleanup(users)
    \/ ai_cleanup_user_read
    \/ \E useless \in {{}} \cup {{e} : e \in Entities}, dbOk \in BOOLEAN :
           ai_cleanup_user_apply(CHOOSE e \in Entities : TRUE, <<>>, useless, dbOk)
    \/ \E user_ids \in Orders(get_all_user_ids(gcdb)) : scheduled_memory_gc(user_ids)
    \/ \E dbOk \in BOOLEAN : gc_user(dbOk)
    \/ \E n \in 0..BATCH_SIZE, dbOk \in BOOLEAN : gc_user_summarized(n, dbOk)

SpecJobs == InitGC /\ [][NextJobs]_vars

\* ------------------------------------------------- memory GC, every caller

\* gc_user(user_id) as caller c runs it, up to its await: gc_all_users of either
\* scheduled job has reached the user, or /debot named it.
gc_user_by(c, u, dbOk) ==
    /\ gcrun[c] = NoRun
    /\ LET before_count == get_user_memory_count(vstore, gcdb, u, dbOk)
           gd == IF before_count > DELETE_THRESHOLD
                 THEN delete_oldest(vstore, gcdb, u, DELETE_RATIO, dbOk)
                 ELSE gcdb
           current_count == get_user_memory_count(vstore, gd, u, dbOk)
           old_ids == IF current_count > SUMMARIZE_THRESHOLD
                      THEN get_oldest_memories(vstore, gd, u,
                                               ceil_ratio(current_count, SUMMARIZE_RATIO))
                      ELSE {}
       IN  /\ gcdb' = gd
           /\ gcrun' = [gcrun EXCEPT ![c] = IF old_ids # {} THEN [cur |-> u, old_ids |-> old_ids]
                                            ELSE NoRun]
    /\ UNCHANGED <<graph, gop, job, org, stats, split, walk, handlerOf, wl, hist, now, blVars,
                   pc, ev, gateVars, chatVars, memVars, affVars>>

\* The summaries of caller c's call are back: n of them.
gc_user_summarized_by(c, n, dbOk) ==
    /\ gcrun[c] # NoRun
    /\ n \in 0..batches(Cardinality(gcrun[c].old_ids))
    /\ gcdb' = IF n > 0 /\ dbOk
               THEN insert_summary_and_delete(gcdb, gcrun[c].cur, gcrun[c].old_ids, n, now)
               ELSE gcdb
    /\ gcrun' = [gcrun EXCEPT ![c] = NoRun]
    /\ UNCHANGED <<graph, gop, job, org, stats, split, walk, handlerOf, wl, hist, now, blVars,
                   pc, ev, gateVars, chatVars, memVars, affVars>>

NextGcCallers ==
    \/ \E c \in GcCallers, u \in JobUsers, dbOk \in BOOLEAN : gc_user_by(c, u, dbOk)
    \/ \E c \in GcCallers, n \in 0..BATCH_SIZE, dbOk \in BOOLEAN :
           gc_user_summarized_by(c, n, dbOk)

SpecGcCallers == InitGC /\ [][NextGcCallers]_vars

\* ------------------------------------------------------- the whitelist rule

\* driver.config.superusers
superusers == {"su"}

\* The addresses CPython gives event objects (id(event)).
Addresses == 1..2

\* The events: a private message, a group message, or an event of another type.
WlEvents ==
    {[kind |-> k, user |-> u, group |-> g] :
        k \in {"private", "group", "other"}, u \in {"u1", "u2", "su"},
        g \in {None, "g1", "g2"}}
    \cap {e \in [kind : {"private", "group", "other"}, user : {"u1", "u2", "su"},
                  group : {None, "g1", "g2"}] : (e.kind = "group") <=> (e.group # None)}

\* bot_config.whitelist
WlConfigs ==
    {[enable |-> e, allow_all_private |-> p, allowed_users |-> {"u1"},
      allowed_groups |-> {"g1"}] : e \in BOOLEAN, p \in BOOLEAN}

\* The cache is emptied when it holds more than this many decisions.
cache_limit == 100

\* check_whitelist from 'try: user_id = ...' on: the decision for the event.
decide(config, event) ==
    IF event.user \in superusers THEN TRUE
    ELSE IF ~config.enable THEN TRUE
    ELSE IF event.kind = "private"
         THEN config.allow_all_private \/ event.user \in config.allowed_users
    ELSE IF event.kind = "group" THEN event.group \in config.allowed_groups
    ELSE FALSE

\* check_whitelist: [result, cache after]; event_id is str(id(event)).
check_whitelist(config, cache, event_id, event) ==
    LET cached == {c \in cache : c.event_id = event_id}
    IN  IF cached # {}
        THEN [result |-> (CHOOSE c \in cached : TRUE).allow, cache |-> cache]
        ELSE LET kept == IF Cardinality(cache) > cache_limit THEN {} ELSE cache
                 r == decide(config, event)
             IN  [result |-> r, cache |-> kept \cup {[event_id |-> event_id, allow |-> r]}]

\* A new event object is created at a free address and the rule is evaluated.
rule_check(a, event) ==
    /\ wl.alive[a] = NoWlEvent
    /\ LET r == check_whitelist(wl.config, wl.cache, a, event)
       IN  wl' = [wl EXCEPT !.alive[a] = event, !.cache = r.cache,
                            !.out = [event |-> event, result |-> r.result]]
    /\ UNCHANGED <<graph, gop, gcdb, job, org, stats, split, walk, handlerOf, gcrun, hist, now, blVars, pc,
                   ev, gateVars, chatVars, memVars, affVars>>

\* The rule of another matcher is evaluated for an event that is still alive.
rule_check_again(a) ==
    /\ wl.alive[a] # NoWlEvent
    /\ LET r == check_whitelist(wl.config, wl.cache, a, wl.alive[a])
       IN  wl' = [wl EXCEPT !.cache = r.cache,
                            !.out = [event |-> wl.alive[a], result |-> r.result]]
    /\ UNCHANGED <<graph, gop, gcdb, job, org, stats, split, walk, handlerOf, gcrun, hist, now, blVars, pc,
                   ev, gateVars, chatVars, memVars, affVars>>

\* The handlers of an event are over and the object is collected: its address
\* can be given to a later object.
event_freed(a) ==
    /\ wl.alive[a] # NoWlEvent
    /\ wl' = [wl EXCEPT !.alive[a] = NoWlEvent]
    /\ UNCHANGED <<graph, gop, gcdb, job, org, stats, split, walk, handlerOf, gcrun, hist, now, blVars, pc,
                   ev, gateVars, chatVars, memVars, affVars>>

InitWhitelist ==
    /\ InitButShortTerm
    /\ shortTerm = [k \in Users \cup Groups |-> <<>>]
    /\ gcrun = [c \in GcCallers |-> NoRun]
    /\ handlerOf = [t \in Turns |-> "handle_chat_command"]
    /\ graph = EmptyGraph
    /\ split = NoSplit
    /\ affection = [u \in Users |-> NoAffection]
    /\ gcdb = NoGcDbs
    /\ wl \in {[NoWl EXCEPT !.config = c] : c \in WlConfigs}

NextWhitelist ==
    \/ \E a \in Addresses, event \in WlEvents : rule_check(a, event)
    \/ \E a \in Addresses : rule_check_again(a)
    \/ \E a \in Addresses : event_freed(a)

SpecWhitelist == InitWhitelist /\ [][NextWhitelist]_vars

\* ------------------------------------------------------------------ properties

\* C1, as stated: chat() never raises, and whenever one of its stages failed
\* (an exception reached its except clause, or the corrective rewrite failed)
\* it hands back the configured fallback string.
C1_FallbackOnEveryFailure ==
    \A t \in Turns :
        /\ ret[t] # "raised"
        /\ (pc[t] = "reply_ready" /\ (failed[t] \/ ret[t] = "dots")) => ret[t] = "error_reply"

\* C1, amended: chat() never raises and always hands back a string; when an
\* exception reached its except clause the string is the configured fallback,
\* and a failed corrective rewrite yields the fixed "......" instead.
C1_ChatReturnsString ==
    \A t \in Turns :
        /\ ret[t] \in {"none", "reply", "rewritten", "dots", "error_reply"}
        /\ pc[t] = "reply_ready" => ret[t] # "none"
        /\ (pc[t] = "reply_ready" /\ failed[t]) => ret[t] = "error_reply"
        /\ pc[t] = "done" => sent[t] # "none"

\* The affection update of a committed turn failed and chat() handed back the
\* fallback string.
C1_Witness ==
    \E t \in Turns :
        /\ pc[t] = "reply_ready"
        /\ failed[t]
        /\ ret[t] = "error_reply"
        /\ \E k \in Users \cup Groups : \E i \in 1..Len(shortTerm[k]) :
               shortTerm[k][i].src = "live" /\ shortTerm[k][i].n = t

\* C2, as stated: a turn whose guard verdict is positive (tier-1 keyword or a
\* tier-2 "true") ends with the ban notice and never enters the reply pipeline.
C2_PositiveVerdictBlocks ==
    \A t \in Turns :
        verdict[t] \in {"keyword", "true"} => pc[t] = "done" /\ sent[t] = "guard_notice"

\* C3: when tier 2 answers something other than true or false, or the call
\* fails, the step that receives it leaves the blacklist as it was, sends
\* nothing and moves the turn on towards the reply pipeline.
C3_UnknownVerdictFailsOpen ==
    [][\A t \in Turns :
          (pc[t] = "guard_wait" /\ verdict'[t] \in {"other", "error"}) =>
              /\ blacklist' = blacklist
              /\ sent'[t] = "none"
              /\ pc'[t] = AfterGuard(ev[t])]_vars

\* A turn went on after an unknown guard answer.
C3_Witness ==
    \E t \in Turns : verdict[t] \in {"other", "error"} /\ pc[t] \in {"ginfo_wait", "chat_start"}

\* C4, as stated: a turn stopped at the blacklist gate is always answered with
\* the notice (never with silence).
C4_GatedTurnGetsNotice ==
    \A t \in Turns : sent[t] # "silent"

\* C4, amended: a turn whose sender is_blocked found banned ends at the gate
\* with nothing else changed; it is answered with the notice stating the
\* remaining whole minutes of the ban, or, when the ban ran out between
\* is_blocked and get_info, with silence.
C4_GatedTurnStops ==
    [][\A t \in Turns :
          (pc[t] = "gate_true" /\ pc'[t] # "gate_true") =>
              /\ pc'[t] = "done"
              /\ UNCHANGED <<verdict, chatVars, memVars, affVars>>
              /\ \/ /\ sent'[t] = "ban_notice"
                    /\ \E r \in RowsOf(blacklist, ev[t].user) :
                          /\ now' < r.expires_at
                          /\ minutesSent'[t] = (r.expires_at - now') \div SecondsPerMinute
                 \/ /\ sent'[t] = "silent"
                    /\ \A r \in RowsOf(blacklist, ev[t].user) : now' >= r.expires_at]_vars

\* A gated turn was answered with the notice stating the minutes left.
C4_Witness ==
    \E t \in Turns : pc[t] = "done" /\ sent[t] = "ban_notice" /\ minutesSent[t] >= 0

\* C5: is_blocked(u) answers true exactly when, right after the call, the table
\* holds a row for u with now < expires_at; a row that had expired is deleted
\* by the call, which then answers false.
C5_IsBlockedIffLiveRow ==
    [][\A t \in Turns :
          (pc[t] = "idle" /\ pc'[t] \in {"gate_true", "gate_false"}) =>
              /\ pc'[t] = "gate_true" <=>
                     \E r \in RowsOf(blacklist', ev'[t].user) : now' < r.expires_at
              /\ \A r \in RowsOf(blacklist, ev'[t].user) :
                     now' >= r.expires_at => r \notin blacklist' /\ pc'[t] = "gate_false"]_vars

\* is_blocked found an expired row and deleted it.
C5_Witness ==
    \E t \in Turns :
        pc[t] = "gate_false" /\ isb[t] = "expired" /\ RowsOf(blacklist, ev[t].user) = {}

\* A step in which ban() wrote the row of a user who already had one.
BanOnExisting(u) ==
    /\ RowsOf(blacklist, u) # {}
    /\ RowsOf(blacklist', u) # {}
    /\ RowsOf(blacklist', u) # RowsOf(blacklist, u)

\* C6, as stated: ban() on a user who has a row keeps one row, raises the
\* hit count by one and never stores an expiry earlier than the one before.
C6_BanExtendsExpiry ==
    [][\A u \in Users :
          BanOnExisting(u) =>
              /\ Cardinality(RowsOf(blacklist', u)) = 1
              /\ \A old \in RowsOf(blacklist, u), new \in RowsOf(blacklist', u) :
                     /\ new.hit_count = old.hit_count + 1
                     /\ new.expires_at >= old.expires_at]_vars

\* C6, amended: ban() on a user who has a row keeps one row, raises the hit
\* count by one and replaces the expiry by the time of the call plus the
\* minutes passed (which may be earlier than the expiry before).
C6_BanResetsExpiry ==
    [][\A u \in Users :
          BanOnExisting(u) =>
              /\ Cardinality(RowsOf(blacklist', u)) = 1
              /\ \A old \in RowsOf(blacklist, u), new \in RowsOf(blacklist', u) :
                     /\ new.hit_count = old.hit_count + 1
                     /\ \E minutes \in AdminMinutes \cup {BlacklistMinutes} :
                            new.expires_at = now' + minutes * SecondsPerMinute]_vars

\* A row was banned again.
C6_Witness ==
    \E r \in blacklist : r.hit_count = 2 /\ Cardinality(RowsOf(blacklist, r.user_id)) = 1

\* C7: a private-scene search without cross_scene returns only rows of the
\* private_memories table, none stored from a group turn.
C7_PrivateSearchHidesGroupRows ==
    (found.user # None /\ found.group = None /\ ~found.cross_scene) =>
        \A r \in found.rows : r.source = "private_memories" /\ r.scene = None

\* A private-scene search without cross_scene hit the vector of a group turn.
C7_Witness ==
    /\ found.user # None
    /\ found.group = None
    /\ ~found.cross_scene
    /\ found.hit_group

\* C8, as stated: no two turns of one scene key are inside chat() (from the
\* retrieval to the end of the affection update) at the same time.
C8_SameSceneSerialized ==
    \A t1, t2 \in Turns :
        (t1 # t2 /\ pc[t1] \in ChatPcs /\ pc[t2] \in ChatPcs) =>
            memory_key(ev[t1]) # memory_key(ev[t2])

\* The private index of u as the next operation finds it.
PrivateIndex(u) == load_index(vstore.pcache[u], vstore.pfile[u])

\* C9, as stated: for every user the rows of private_memories plus the
\* group-tagged id-map entries are as many as the vectors of the private index.
C9_RowsMatchVectors ==
    \A u \in Users :
        Cardinality(vstore.udb[u].private_memories)
          + Cardinality({i \in 1..Len(PrivateIndex(u).id_map) :
                            PrivateIndex(u).id_map[i].tag = "group"})
          = Len(PrivateIndex(u).vecs)

\* C10, as stated: every stored affection record has a score in [0.0, 13.0]
\* and a level that is the band of LEVEL_RANGES holding the score.
C10_LevelIsBandOfScore ==
    \A u \in Users :
        affection[u].exists =>
            /\ affection[u].score \in 0..13000
            /\ \E i \in 1..Len(LEVEL_RANGES) :
                   /\ LEVEL_RANGES[i][1] = affection[u].level
                   /\ LEVEL_RANGES[i][2] <= affection[u].score
                   /\ affection[u].score <= LEVEL_RANGES[i][3]

\* C11: in every short-term buffer the pairs restored from the adapter's history
\* come before every entry appended by a live turn.
C11_RestoredBeforeLive ==
    \A k \in Users \cup Groups : \A i, j \in 1..Len(shortTerm[k]) :
        i < j => ~(shortTerm[k][i].src = "live" /\ shortTerm[k][j].src = "napcat")

\* C12: every short-term entry, live or restored, is stored under the key of
\* the scene it belongs to (the group id for a group, else the user id).
C12_EntriesUnderSceneKey ==
    \A k \in Users \cup Groups : \A i \in 1..Len(shortTerm[k]) : shortTerm[k][i].scene = k

\* C13: whatever happened to the process, the private index and its id-map that
\* a restart reads back from the files have the same length.
C13_FilesReadBackEqualLength ==
    \A u \in Users :
        LET c == load_index(NotLoaded, vstore.pfile[u])
        IN  Len(c.vecs) = Len(c.id_map)

\* C14: every edge a graph retrieval returns for a user has its source entity
\* among that user's nodes.
C14_ReturnedEdgeSourceIsNode ==
    gop.op = "retrieve" =>
        \A e \in retrieve_with_graph(graph, gop.user, gop.keyword) :
            NodesOf(graph, gop.user, e.source) # {}

\* C15: add_node on an entity that is a node already keeps every alias the node
\* had and stores the alias passed with them.
C15_AddNodeMergesAliases ==
    [][\A u \in Users, entity \in Entities, alias \in Aliases \cup {None} :
          (/\ gop'.op = "add_dialogue"
           /\ NodesOf(graph, u, entity) # {}
           /\ graph' = add_node(graph, u, entity, alias)) =>
              \A old \in NodesOf(graph, u, entity), new \in NodesOf(graph', u, entity) :
                  /\ old.aliases \subseteq new.aliases
                  /\ alias # None => alias \in new.aliases]_vars

\* C16: after add_edge on a key (user, source, target, relation) the table holds
\* exactly one row of that key; its weight is the initial weight when the key
\* was new, and the weight before plus 0.1 when it was there.
C16_EdgeUpsertAddsTenth ==
    [][\A u \in Users, source \in Entities, target \in Entities, relation \in Relations :
          (/\ gop'.op = "add_dialogue"
           /\ graph' = add_edge(graph, u, source, target, relation, InitialWeight)) =>
              LET old == EdgesOf(graph, u, source, target, relation)
                  new == EdgesOf(graph', u, source, target, relation)
              IN  /\ Cardinality(new) = 1
                  /\ \A n \in new :
                         /\ old = {} => n.weight = InitialWeight
                         /\ \A o \in old : n.weight = o.weight + WeightStep]_vars

\* The same edge was inserted twice.
C16_Witness ==
    /\ gop.op = "add_dialogue"
    /\ \E e \in graph.edges :
           /\ e.weight = InitialWeight + WeightStep
           /\ EdgesOf(graph, e.user_id, e.source_entity, e.target_entity, e.relation) = {e}

\* C17: when the cleaner merges duplicates D (all of them nodes) into a main
\* entity M (a node), every edge that touched a member of D is found on M
\* afterwards unless it became a loop on M, and no node and no edge of the user
\* names a member of D any more.
C17_MergeMigratesAndRemoves ==
    [][\A main_entity \in Entities, duplicates \in DupInputs \ {<<>>} :
          LET u == gop'.user
              D == {duplicates[i] : i \in DOMAIN duplicates}
              onto(x) == IF x \in D THEN main_entity ELSE x
          IN  (/\ gop'.op = "cleanup"
               /\ gop'.merged = <<main_entity>> \o duplicates
               /\ job.cur = u
               /\ NodesOf(graph, u, main_entity) # {}
               /\ \A d \in D : NodesOf(graph, u, d) # {}
               /\ graph' = ApplyCleanup(graph, u, main_entity, duplicates, {})) =>
                  /\ \A e \in graph.edges :
                         (/\ e.user_id = u
                          /\ e.source_entity \in D \/ e.target_entity \in D
                          /\ ~(onto(e.source_entity) = main_entity
                               /\ onto(e.target_entity) = main_entity)) =>
                             EdgesOf(graph', u, onto(e.source_entity), onto(e.target_entity),
                                     e.relation) # {}
                  /\ \A n \in graph'.nodes : n.user_id = u => n.entity \notin D
                  /\ \A e \in graph'.edges :
                         e.user_id = u => e.source_entity \notin D /\ e.target_entity \notin D]_vars

\* C18: the count memory GC reads for a user is the number of private plus
\* group rows of the store the user's turns append to.
C18_GcCountsTheTurnsRows ==
    \A u \in Users :
        vstore.udb[u].exists =>
            get_user_memory_count(vstore, gcdb, u, TRUE)
                = Cardinality(vstore.udb[u].private_memories)
                  + Cardinality(vstore.udb[u].group_memories)

C20_ErrorDoesNotEndRun == ~(job.raised /\ job.todo # <<>>)

\* C21: when the rule check flags the first reply, one corrective call is made
\* (the turn waits for it once and commits when it is back), what it returns is
\* the turn's final reply, and the memories take that reply alone: nothing is
\* stored when the first reply is flagged, and the commit stores the second.
C21_RewriteReplacesFirstReply ==
    [][\A t \in Turns :
          LET key == memory_key(ev[t])
              live(stm) == {stm[key][i] : i \in {j \in 1..Len(stm[key]) :
                               stm[key][j].src = "live" /\ stm[key][j].n = t}}
              rows(vs) == {r \in vs.udb[ev[t].user].private_memories
                                 \cup vs.udb[ev[t].user].group_memories
                                 \cup UNION {vs.gdb[g].member_memories : g \in Groups} :
                              r.content.n = t}
          IN  /\ (pc'[t] = "rewrite_wait" /\ pc[t] # "rewrite_wait") =>
                     /\ pc[t] = "gen_wait"
                     /\ UNCHANGED memVars
                     /\ live(shortTerm) = {} /\ rows(vstore) = {}
              /\ (pc[t] = "rewrite_wait" /\ pc'[t] # "rewrite_wait") =>
                     /\ pc'[t] = "aff_read"
                     /\ reply'[t] # "reply"
                     /\ {e.reply : e \in live(shortTerm')} = {reply'[t]}
                     /\ {r.content.reply : r \in rows(vstore')} = {reply'[t]}
              /\ (pc[t] = "aff_done" /\ pc'[t] # "aff_done" /\ ~failed[t]) =>
                     ret'[t] = reply[t]]_vars

\* A flagged turn handed back the rewritten reply, and the short-term memory
\* holds it for that turn.
C21_Witness ==
    \E t \in Turns :
        /\ pc[t] = "reply_ready"
        /\ ret[t] = "rewritten"
        /\ \E i \in 1..Len(shortTerm[memory_key(ev[t])]) :
               /\ shortTerm[memory_key(ev[t])][i].n = t
               /\ shortTerm[memory_key(ev[t])][i].reply = "rewritten"

\* C22: when the retrievals of stage 4 are back (memory, knowledge base, graph,
\* affection lookup), failed or not, the turn goes on to the organizer and no
\* exception is on its way to the fallback.
C22_RetrievalFailureAbsorbed ==
    [][\A t \in Turns :
          (pc[t] = "graph_wait" /\ pc'[t] # "graph_wait") =>
              pc'[t] = "org_wait" /\ ~failed'[t]]_vars

\* C23: an organizer call that fails under skip_organizer_on_failure = true
\* sends the turn on to the generator with the trivial summary, and the turn
\* returns what the generator path committed unless a later stage fails; a turn
\* leaves the organizer for the fallback string only when the call failed and
\* the setting is false.
C23_OrganizerFailureSkipped ==
    [][\A t \in Turns :
          /\ (pc[t] = "org_wait" /\ pc'[t] # "org_wait") =>
                /\ org'[t] = "fail_skip" =>
                      pc'[t] \in {"kb_wait", "gen_wait"} /\ ~failed'[t] /\ ret'[t] = "none"
                /\ failed'[t] => org'[t] = "fail_noskip" /\ ret'[t] = "error_reply"
          /\ (org[t] = "fail_skip" /\ pc[t] \in {"kb_wait", "gen_wait", "rewrite_wait"}) =>
                pc'[t] \in {"kb_wait", "gen_wait", "rewrite_wait", "aff_read"}
                  \/ (pc[t] # "kb_wait" /\ failed'[t])
          /\ (org[t] = "fail_skip" /\ pc[t] = "gen_wait" /\ pc'[t] = "aff_read") =>
                reply'[t] \in {"reply", "error_reply"}
          /\ (org[t] = "fail_skip" /\ pc[t] = "aff_done" /\ pc'[t] # "aff_done"
                /\ ~failed[t]) => ret'[t] = reply[t]]_vars

\* A turn whose organizer call failed under the setting has the generator's
\* reply as the result of chat().
C23_Witness ==
    \E t \in Turns : org[t] = "fail_skip" /\ pc[t] = "reply_ready" /\ ret[t] = "reply"

\* C24: the reply path does not depend on the statistics write: whatever the
\* state of stats.db, a turn that leaves the guard without the ban notice goes
\* on towards chat() and its reply, and nothing has been sent in its place.
C24_StatsWriteOffReplyPath ==
    [][\A t \in Turns :
          (/\ pc[t] \in {"gate_false", "guard_wait"}
           /\ pc'[t] \notin {"gate_false", "guard_wait"}
           /\ sent'[t] # "guard_notice") =>
              pc'[t] = AfterGuard(ev[t]) /\ sent'[t] = "none"]_vars

\* ------------------------------------------------------- the message splitter

\* Texts of letters and backquotes ("tick"), three backquotes in a row being the code
\* fence.
SplitChars == {"a", "tick"}
SplitTexts == UNION {[1..n -> SplitChars] : n \in 0..MaxTextLen}

\* The test of split_text for the code fence in text.
has_code_fence(text) ==
    \E i \in 1..Len(text) - 2 :
        text[i] = "tick" /\ text[i + 1] = "tick" /\ text[i + 2] = "tick"

\* What _llm_split can hand back for a text: the text alone (no utility model,
\* no provider, an empty answer, an exception), or the lines of the model's
\* answer, here the text cut in two at any place.
_llm_split(text) ==
    {<<text>>} \cup {<<SubSeq(text, 1, k), SubSeq(text, k + 1, Len(text))>> :
                        k \in 1..Len(text) - 1}

\* split_text up to its call of the model: TRUE when [text] is returned at once.
returns_text_at_once(sp, text) ==
    \/ ~sp.enabled
    \/ Len(text) < sp.split_threshold
    \/ has_code_fence(text)

\* MessageSplitter.split_text(text), segments being what _llm_split answered.
split_text(text, segments) ==
    /\ split.out = <<>>
    /\ segments \in _llm_split(text)
    /\ split' = [split EXCEPT !.text = text,
                              !.out = IF returns_text_at_once(split, text) THEN <<text>>
                                      ELSE segments]
    /\ UNCHANGED <<graph, gop, gcdb, job, org, stats, walk, handlerOf, gcrun, wl, hist, now, blVars, pc,
                   ev, gateVars,
                   chatVars, memVars, affVars>>

\* The splitter is handed the next text.
split_again ==
    /\ split.out # <<>>
    /\ split' = [split EXCEPT !.text = <<>>, !.out = <<>>]
    /\ UNCHANGED <<graph, gop, gcdb, job, org, stats, walk, handlerOf, gcrun, wl, hist, now, blVars, pc,
                   ev, gateVars,
                   chatVars, memVars, affVars>>

\* A splitter of any reply_strategy configuration.
InitSplit ==
    /\ InitButAffection
    /\ handlerOf = [t \in Turns |-> "handle_chat_command"]
    /\ graph = EmptyGraph
    /\ affection = [u \in Users |-> NoAffection]
    /\ gcdb = NoGcDbs
    /\ split \in [enabled : BOOLEAN, split_threshold : 1..MaxTextLen, text : {<<>>},
                  out : {<<>>}]

NextSplit ==
    \/ \E text \in SplitTexts : \E segments \in _llm_split(text) : split_text(text, segments)
    \/ split_again

SpecSplit == InitSplit /\ [][NextSplit]_vars

\* C25: once split_text has returned for a text that is not longer than the
\* threshold and has no code fence, the list it returned is the text alone.
C25_ShortTextComesBackWhole ==
    (/\ split.out # <<>>
     /\ Len(split.text) <= split.split_threshold
     /\ ~has_code_fence(split.text)) => split.out = <<split.text>>

\* C26: every vector of a private or a group index, in memory and on disk, has
\* norm 1, whatever the embedding endpoint answered to the inserts.
C26_StoredVectorsHaveUnitNorm ==
    /\ \A u \in Users :
          /\ \A i \in 1..Len(vstore.pcache[u].vecs) : vstore.pcache[u].vecs[i] = "unit"
          /\ \A i \in 1..Len(vstore.pfile[u].vecs) : vstore.pfile[u].vecs[i] = "unit"
    /\ \A g \in Groups :
          /\ \A i \in 1..Len(vstore.gcache[g].vecs) : vstore.gcache[g].vecs[i] = "unit"
          /\ \A i \in 1..Len(vstore.gfile[g].vecs) : vstore.gfile[g].vecs[i] = "unit"

\* C27: the commit of a turn of user U in group G adds one row tagged G to U's
\* group_memories and one row tagged U to G's member_memories, and leaves U's
\* private_memories as they were.
C27_GroupTurnAddsOneRowEach ==
    [][\A t \in Turns :
          (/\ pc[t] \in {"gen_wait", "rewrite_wait"}
           /\ pc'[t] = "aff_read"
           /\ ev[t].group # None) =>
              LET U == ev[t].user
                  G == ev[t].group
                  user_rows == vstore'.udb[U].group_memories \ vstore.udb[U].group_memories
                  group_rows == vstore'.gdb[G].member_memories \ vstore.gdb[G].member_memories
              IN  /\ Cardinality(user_rows) = 1
                  /\ \A r \in user_rows : r.scene = G
                  /\ Cardinality(group_rows) = 1
                  /\ \A r \in group_rows : r.user_id = U
                  /\ vstore'.udb[U].private_memories = vstore.udb[U].private_memories]_vars

\* ------------------------------------------------------- get_neighbors alone

\* The graphs handed to get_neighbors: entity 0 with n outgoing edges of three
\* different weights to the entities 1..n (entities are named by numbers here);
\* with back, every one of them has an edge back to entity 0 and entity 0 one
\* to itself; with chain, entity i has an edge to entity i + 1.
FanEdge(source, target) ==
    [user_id |-> "u1", source_entity |-> source, target_entity |-> target,
     relation |-> "r", weight |-> InitialWeight + ((source + target) % 3)]

FanGraph(n, back, chain) ==
    [nodes |-> {},
     edges |-> {FanEdge(0, i) : i \in 1..n}
               \cup (IF back THEN {FanEdge(i, 0) : i \in 0..n} ELSE {})
               \cup (IF chain THEN {FanEdge(i, i + 1) : i \in 1..n - 1} ELSE {})]

InitNeighbors ==
    /\ InitButAffection
    /\ handlerOf = [t \in Turns |-> "handle_chat_command"]
    /\ affection = [u \in Users |-> NoAffection]
    /\ gcdb = NoGcDbs
    /\ split = NoSplit
    /\ graph \in {FanGraph(n, back, chain) : n \in 0..MaxFan, back \in BOOLEAN,
                                             chain \in BOOLEAN}

\* One call get_neighbors(user_id, entity), recorded with the walk it made.
get_neighbors_call(u, entity) ==
    /\ walk' = [entity |-> entity, w |-> _traverse(graph, u, entity, 1, NoWalk)]
    /\ UNCHANGED <<graph, gop, gcdb, job, org, stats, split, handlerOf, gcrun, wl, hist, now, blVars, pc, ev,
                   gateVars, chatVars, memVars, affVars>>

NextNeighbors == \E u \in Users, entity \in 0..MaxFan : get_neighbors_call(u, entity)

SpecNeighbors == InitNeighbors /\ [][NextNeighbors]_vars

\* C28: a get_neighbors call ends having queried each entity at most once, none
\* of them at a depth beyond max_depth; from each it followed at most 10 of its
\* outgoing edges, in descending order of weight and none lighter than an edge
\* it left out; and its results are the rows it followed.
C28_TraversalIsBounded ==
    LET x == walk.w.expanded
        out(e) == {d \in graph.edges : d.user_id = "u1" /\ d.source_entity = e}
    IN  /\ \A i, j \in 1..Len(x) : x[i].entity = x[j].entity => i = j
        /\ \A i \in 1..Len(x) :
              /\ x[i].depth \in 1..max_depth
              /\ Len(x[i].rows) <= NeighborLimit
              /\ \A k \in 1..Len(x[i].rows) - 1 :
                    x[i].rows[k].weight >= x[i].rows[k + 1].weight
              /\ \A k \in 1..Len(x[i].rows) :
                    /\ x[i].rows[k] \in out(x[i].entity)
                    /\ \A d \in out(x[i].entity) :
                          (\A m \in 1..Len(x[i].rows) : x[i].rows[m] # d) =>
                              d.weight <= x[i].rows[k].weight
        /\ Len(walk.w.results) <= NeighborLimit * Len(x)
        /\ Len(x) <= Cardinality(walk.w.visited)

\* A call on a cyclic graph whose first entity has more than 10 outgoing edges.
C28_Witness ==
    /\ walk.entity = 0
    /\ Len(walk.w.expanded) > 1
    /\ Len(walk.w.expanded[1].rows) = NeighborLimit
    /\ Cardinality({d \in graph.edges : d.source_entity = 0}) > NeighborLimit
    /\ \E i \in 1..Len(walk.w.results) :
          walk.w.results[i].depth = max_depth /\ walk.w.results[i].target = 0

\* C29: a turn whose text is empty once the images are captioned ends without
\* any send and without reaching chat(), in whichever handler it runs: a message
\* without text and image when the handler has looked at it, a message of
\* images alone when no description came back.
C29_EmptyTextReturnsSilently ==
    [][\A t \in Turns :
          /\ (ev[t].text = "empty" /\ pc[t] = "gate_false" /\ pc'[t] # "gate_false") =>
                pc'[t] = "done" /\ sent'[t] = "silent"
          /\ (ev[t].text = "image_only" /\ pc[t] = "caption_wait"
                /\ pc'[t] \notin {"caption_wait", AfterGuard(ev[t])}) =>
                pc'[t] = "done" /\ sent'[t] = "silent"]_vars

\* C30: the step in which the guard meets a tier-1 keyword ends the guard with
\* the positive verdict, no tier-2 request is sent for the message, and the user
\* has a live blacklist row when the step is over.
C30_KeywordBansWithoutModel ==
    [][\A t \in Turns :
          (pc[t] = "gate_false" /\ pc'[t] # "gate_false" /\ quick_block(ev[t].text)) =>
              /\ verdict'[t] = "keyword"
              /\ pc'[t] # "guard_wait"
              /\ \E r \in RowsOf(blacklist', ev[t].user) : r.expires_at > now']_vars

\* old with its d oldest entries gone, followed by the a newest entries of new.
ShiftedBy(old, new, a) ==
    LET over == Len(old) + a - _max_short_term_rounds
        d == IF over > 0 THEN over ELSE 0
    IN  /\ d <= Len(old)
        /\ Len(new) = Len(old) - d + a
        /\ \A i \in 1..(Len(old) - d) : new[i] = old[i + d]

C32_NoGeneratorCallUnderBan ==
    [][\A t \in Turns :
          (pc[t] # "gen_wait" /\ pc'[t] = "gen_wait") =>
              \A r \in RowsOf(blacklist', ev[t].user) : r.expires_at <= now']_vars

\* C33: when a turn of a user in one scene writes its affection update while a
\* turn of the same user in another scene is under way, the score it read is
\* still the stored score, so that its delta is applied on top of the other
\* turn's, and total-interactions grows by one with each write.
C33_BothUpdatesTakeEffect ==
    [][\A t \in Turns, t2 \in Turns :
          (/\ pc[t] = "aff_write" /\ pc'[t] = "aff_done"
           /\ ev[t2].user = ev[t].user /\ ev[t2].group # ev[t].group) =>
              /\ affOld[t] = affection[ev[t].user].score
              /\ affection'[ev[t].user].total = affection[ev[t].user].total + 1]_vars

\* The long-term rows that hold the pair of turn t.
RowsOfTurn(vs, t) ==
    UNION {{r \in vs.udb[u].private_memories \cup vs.udb[u].group_memories : r.content.n = t}
              : u \in Users}
      \cup UNION {{r \in vs.gdb[g].member_memories : r.content.n = t} : g \in Groups}

\* C34: when chat() has returned the fallback string for a turn, no short-term
\* buffer holds an entry of that turn and no long-term table a row of it.
C34_FallbackTurnNotCommitted ==
    \A t \in Turns :
        (pc[t] = "reply_ready" /\ ret[t] = "error_reply") =>
            /\ \A k \in Users \cup Groups : \A i \in 1..Len(shortTerm[k]) :
                   ~(shortTerm[k][i].src = "live" /\ shortTerm[k][i].n = t)
            /\ RowsOfTurn(vstore, t) = {}

\* C36: the step in which gc_user gets the summaries back deletes rows only
\* when every batch of the selected rows gave a summary row, inserted in the
\* same step: the rows of a batch whose summary is empty are still there.
C36_DeletedOnlyWithOwnSummary ==
    [][(job.kind = "gc" /\ job.cur # None /\ job' # job) =>
          LET u == job.cur
              deleted == {r \in gcdb[u].private_memories : r \notin gcdb'[u].private_memories}
              inserted == gcdb'[u].private_memories \ gcdb[u].private_memories
          IN  deleted # {} =>
                  Cardinality(inserted) = batches(Cardinality(job.old_ids))]_vars

\* C35: no two callers of gc_user are inside a pass over the same user at the
\* same time, and the rows a pass replaces by summaries are rows that no other
\* pass has replaced before.
C35_OneGcPassPerUser ==
    /\ [](\A c1 \in GcCallers, c2 \in GcCallers :
             (c1 # c2 /\ gcrun[c1] # NoRun) => gcrun[c1].cur # gcrun[c2].cur)
    /\ [][\A c \in GcCallers :
            (gcrun[c] # NoRun /\ gcrun'[c] = NoRun /\ gcdb' # gcdb) =>
                gcrun[c].old_ids \subseteq {r.id : r \in gcdb[gcrun[c].cur].private_memories}]_vars

\* C40: the decision check_whitelist hands back for an event is the one the
\* configuration gives for that event's own sender and group.
C40_DecisionIsTheEventsOwn ==
    wl.out.event # NoWlEvent => (wl.out.result <=> decide(wl.config, wl.out.event))

\* C37: no short-term buffer holds the same restored pair twice.
C37_RestoredAtMostOnce ==
    \A k \in Users \cup Groups : \A i, j \in 1..Len(shortTerm[k]) :
        (i # j /\ shortTerm[k][i].src = "napcat") => shortTerm[k][i] # shortTerm[k][j]

\* C38: the cleaning step that merges a group the model named into a main
\* entity that is a node leaves the main entity a node, whatever names the
\* group lists as duplicates.
C38_MergeKeepsMainNode ==
    [][(/\ job.kind = "rag" /\ job.cur # None /\ job' # job
        /\ gop'.op = "cleanup" /\ gop'.merged # <<>>
        /\ NodesOf(graph, job.cur, Head(gop'.merged)) # {}) =>
            NodesOf(graph', job.cur, Head(gop'.merged)) # {}]_vars

\* C39: a reply that chat() hands back from the generator path, and the reply
\* it stored for the turn, match no pattern of the reply blacklist.
C39_ReturnedReplyPassesRules ==
    \A t \in Turns :
        /\ (pc[t] = "reply_ready" /\ ~failed[t]) => check_reply_rules(ret[t])
        /\ \A k \in Users \cup Groups : \A i \in 1..Len(shortTerm[k]) :
               shortTerm[k][i].src = "live" => check_reply_rules(shortTerm[k][i].reply)

====
